---- MODULE Spec2Model ----
(***************************************************************************)
(* Model of ai-research-assistant: the README section parser               *)
(* (readme_parser.py) and the project analysis of AIResearchAssistant      *)
(* (ai_research_assistant.py).                                             *)
(*                                                                         *)
(* A Python str is modelled as a sequence of one-character strings, so     *)
(* that substring tests, case folding, splitting and the regular           *)
(* expressions of the source are computed character by character.          *)
(***************************************************************************)
EXTENDS Integers, Sequences, FiniteSets, TLC

VARIABLES
  pc,                \* control point of the run being modelled
  readme,            \* README.md handed to ReadmeParser.parse
  sections,          \* _extract_sections result: ordered header -> body
  nxt,               \* number of entries of sections already processed
  field_name,        \* _process_section: bucket of the entry processed last
  items,             \* _process_section: items extracted for that entry
  metadata,          \* the ResearchMetadata under construction or in use
  parsed,            \* what ReadmeParser.parse returned
  queries,           \* what extract_research_queries returned
  project,           \* the project directory: its manifests, README.md, *.py files
  project_metadata,  \* analyze_project: what _extract_project_metadata returned
  research_metadata, \* analyze_project: what _extract_research_metadata returned
  detected,          \* _detect_technologies: the dict tech_name -> [sources]
  scanned,           \* _detect_technologies: how many *.py files its loop has read
  caller,            \* the assistant whose analyze_project is running
  analysis,          \* self.analysis of each assistant
  analyzedOn,        \* per assistant, the directory its last completed analysis saw
  outcome,           \* the last call made on an assistant and how it ended
  returned           \* what the last call that hands back a value returned

parseVars == <<readme, sections, nxt, field_name, items, metadata, parsed>>

detectVars == <<project, project_metadata, research_metadata, detected, scanned>>

assistantVars == <<caller, analysis, analyzedOn, outcome>>

vars == <<pc, readme, sections, nxt, field_name, items, metadata, parsed, queries,
          project, project_metadata, research_metadata, detected, scanned,
          caller, analysis, analyzedOn, outcome, returned>>

-----------------------------------------------------------------------------
(* Python str primitives *)

\* the character U+0060, which a TLA+ string cannot hold
Backtick == "BACKTICK"

\* printable ASCII, code points 32..126, in code point order
Ascii == <<" ","!","\"","#","$","%","&","'","(",")","*","+",",","-",".","/","0","1","2","3","4","5","6","7","8","9",":",";","<","=",">","?","@","A","B","C","D","E","F","G","H","I","J","K","L","M","N","O","P","Q","R","S","T","U","V","W","X","Y","Z","[","\\","]","^","_",Backtick,"a","b","c","d","e","f","g","h","i","j","k","l","m","n","o","p","q","r","s","t","u","v","w","x","y","z","{","|","}","~">>

Chars == {Ascii[i] : i \in 1..Len(Ascii)} \cup {"\n", "\t"}

\* ord(c)
Ord == [c \in Chars |->
          IF c = "\n" THEN 10
          ELSE IF c = "\t" THEN 9
          ELSE 31 + (CHOOSE i \in 1..Len(Ascii) : Ascii[i] = c)]

\* str.isspace for the characters of the model
Whitespace == {" ", "\t", "\n"}

Digits == {"0", "1", "2", "3", "4", "5", "6", "7", "8", "9"}

LowerChar(c) == IF Ord[c] >= 65 /\ Ord[c] <= 90 THEN Ascii[Ord[c] + 1] ELSE c

\* str.lower()
lower(s) == IF s = <<>> THEN <<>> ELSE [i \in 1..Len(s) |-> LowerChar(s[i])]

Drop(s, n) == SubSeq(s, n + 1, Len(s))

Take(s, n) == SubSeq(s, 1, n)

\* number of leading characters of s that are in set
LeadingRun(s, set) ==
  IF \A i \in 1..Len(s) : s[i] \in set THEN Len(s)
  ELSE (CHOOSE i \in 1..Len(s) :
          s[i] \notin set /\ \A j \in 1..(i - 1) : s[j] \in set) - 1

\* number of trailing characters of s that are in set
TrailingRun(s, set) ==
  IF \A i \in 1..Len(s) : s[i] \in set THEN Len(s)
  ELSE Len(s) - (CHOOSE i \in 1..Len(s) :
                   s[i] \notin set /\ \A j \in (i + 1)..Len(s) : s[j] \in set)

lstrip(s) == Drop(s, LeadingRun(s, Whitespace))

rstrip(s) == Take(s, Len(s) - TrailingRun(s, Whitespace))

\* str.strip()
strip(s) == rstrip(lstrip(s))

\* str.rstrip(c) for a one-character argument
rstripChar(s, c) == Take(s, Len(s) - TrailingRun(s, {c}))

\* str.startswith
startswith(s, p) == Len(s) >= Len(p) /\ Take(s, Len(p)) = p

\* the test: sub in s
contains(sub, s) ==
  \E i \in 1..(Len(s) - Len(sub) + 1) : SubSeq(s, i, i + Len(sub) - 1) = sub

\* s.find(sub) + 1: position of the first occurrence, 0 when there is none
find(s, sub) ==
  IF contains(sub, s)
  THEN CHOOSE i \in 1..(Len(s) - Len(sub) + 1) :
         /\ SubSeq(s, i, i + Len(sub) - 1) = sub
         /\ \A j \in 1..(i - 1) : SubSeq(s, j, j + Len(sub) - 1) # sub
  ELSE 0

\* s.split(sep)[0]
splitFirst(s, sep) == IF find(s, sep) = 0 THEN s ELSE Take(s, find(s, sep) - 1)

\* s.split("\n")
RECURSIVE splitLines(_)
splitLines(s) ==
  IF find(s, <<"\n">>) = 0 THEN <<s>>
  ELSE <<Take(s, find(s, <<"\n">>) - 1)>> \o splitLines(Drop(s, find(s, <<"\n">>)))

\* sep.join(parts)
RECURSIVE join(_, _)
join(sep, parts) ==
  IF parts = <<>> THEN <<>>
  ELSE IF Len(parts) = 1 THEN parts[1]
  ELSE parts[1] \o sep \o join(sep, Tail(parts))

\* concatenation of a list of lists
RECURSIVE Flatten(_)
Flatten(ss) == IF ss = <<>> THEN <<>> ELSE ss[1] \o Flatten(Tail(ss))

\* code point order of str: s < t
StrLess(s, t) ==
  \E k \in 1..Len(t) :
     /\ \A j \in 1..(k - 1) : j <= Len(s) /\ s[j] = t[j]
     /\ k > Len(s) \/ Ord[s[k]] < Ord[t[k]]

Range(s) == {s[i] : i \in 1..Len(s)}

-----------------------------------------------------------------------------
(* readme_parser.py *)

\* ResearchMetadata()
Buckets ==
  {"research_focus", "research_questions", "technologies", "keywords",
   "related_papers", "goals", "methodology", "datasets"}

ResearchMetadata == [b \in Buckets |-> <<>>]

\* the table, had the datasets synonyms been declared before the methodology
\* ones
SECTION_MAPPING_DatasetsFirst ==
  << [key |-> <<"r","e","s","e","a","r","c","h"," ","f","o","c","u","s">>, field |-> "research_focus"],
     [key |-> <<"r","e","s","e","a","r","c","h"," ","a","r","e","a">>, field |-> "research_focus"],
     [key |-> <<"r","e","s","e","a","r","c","h"," ","d","o","m","a","i","n">>, field |-> "research_focus"],
     [key |-> <<"f","o","c","u","s"," ","a","r","e","a">>, field |-> "research_focus"],
     [key |-> <<"r","e","s","e","a","r","c","h"," ","q","u","e","s","t","i","o","n","s">>, field |-> "research_questions"],
     [key |-> <<"r","e","s","e","a","r","c","h"," ","p","r","o","b","l","e","m">>, field |-> "research_questions"],
     [key |-> <<"k","e","y"," ","q","u","e","s","t","i","o","n","s">>, field |-> "research_questions"],
     [key |-> <<"q","u","e","s","t","i","o","n","s">>, field |-> "research_questions"],
     [key |-> <<"t","e","c","h","n","o","l","o","g","i","e","s">>, field |-> "technologies"],
     [key |-> <<"t","e","c","h"," ","s","t","a","c","k">>, field |-> "technologies"],
     [key |-> <<"t","o","o","l","s">>, field |-> "technologies"],
     [key |-> <<"f","r","a","m","e","w","o","r","k","s">>, field |-> "technologies"],
     [key |-> <<"k","e","y","w","o","r","d","s">>, field |-> "keywords"],
     [key |-> <<"t","a","g","s">>, field |-> "keywords"],
     [key |-> <<"t","o","p","i","c","s">>, field |-> "keywords"],
     [key |-> <<"r","e","l","a","t","e","d"," ","p","a","p","e","r","s">>, field |-> "related_papers"],
     [key |-> <<"r","e","f","e","r","e","n","c","e","s">>, field |-> "related_papers"],
     [key |-> <<"p","a","p","e","r","s">>, field |-> "related_papers"],
     [key |-> <<"l","i","t","e","r","a","t","u","r","e">>, field |-> "related_papers"],
     [key |-> <<"g","o","a","l","s">>, field |-> "goals"],
     [key |-> <<"o","b","j","e","c","t","i","v","e","s">>, field |-> "goals"],
     [key |-> <<"a","i","m","s">>, field |-> "goals"],
     [key |-> <<"d","a","t","a","s","e","t","s">>, field |-> "datasets"],
     [key |-> <<"d","a","t","a"," ","s","o","u","r","c","e","s">>, field |-> "datasets"],
     [key |-> <<"d","a","t","a">>, field |-> "datasets"],
     [key |-> <<"m","e","t","h","o","d","o","l","o","g","y">>, field |-> "methodology"],
     [key |-> <<"a","p","p","r","o","a","c","h">>, field |-> "methodology"],
     [key |-> <<"m","e","t","h","o","d","s">>, field |-> "methodology"] >>

\* ReadmeParser.SECTION_MAPPING, in declaration order
SECTION_MAPPING ==
  << [key |-> <<"r","e","s","e","a","r","c","h"," ","f","o","c","u","s">>, field |-> "research_focus"],
     [key |-> <<"r","e","s","e","a","r","c","h"," ","a","r","e","a">>, field |-> "research_focus"],
     [key |-> <<"r","e","s","e","a","r","c","h"," ","d","o","m","a","i","n">>, field |-> "research_focus"],
     [key |-> <<"f","o","c","u","s"," ","a","r","e","a">>, field |-> "research_focus"],
     [key |-> <<"r","e","s","e","a","r","c","h"," ","q","u","e","s","t","i","o","n","s">>, field |-> "research_questions"],
     [key |-> <<"r","e","s","e","a","r","c","h"," ","p","r","o","b","l","e","m">>, field |-> "research_questions"],
     [key |-> <<"k","e","y"," ","q","u","e","s","t","i","o","n","s">>, field |-> "research_questions"],
     [key |-> <<"q","u","e","s","t","i","o","n","s">>, field |-> "research_questions"],
     [key |-> <<"t","e","c","h","n","o","l","o","g","i","e","s">>, field |-> "technologies"],
     [key |-> <<"t","e","c","h"," ","s","t","a","c","k">>, field |-> "technologies"],
     [key |-> <<"t","o","o","l","s">>, field |-> "technologies"],
     [key |-> <<"f","r","a","m","e","w","o","r","k","s">>, field |-> "technologies"],
     [key |-> <<"k","e","y","w","o","r","d","s">>, field |-> "keywords"],
     [key |-> <<"t","a","g","s">>, field |-> "keywords"],
     [key |-> <<"t","o","p","i","c","s">>, field |-> "keywords"],
     [key |-> <<"r","e","l","a","t","e","d"," ","p","a","p","e","r","s">>, field |-> "related_papers"],
     [key |-> <<"r","e","f","e","r","e","n","c","e","s">>, field |-> "related_papers"],
     [key |-> <<"p","a","p","e","r","s">>, field |-> "related_papers"],
     [key |-> <<"l","i","t","e","r","a","t","u","r","e">>, field |-> "related_papers"],
     [key |-> <<"g","o","a","l","s">>, field |-> "goals"],
     [key |-> <<"o","b","j","e","c","t","i","v","e","s">>, field |-> "goals"],
     [key |-> <<"a","i","m","s">>, field |-> "goals"],
     [key |-> <<"m","e","t","h","o","d","o","l","o","g","y">>, field |-> "methodology"],
     [key |-> <<"a","p","p","r","o","a","c","h">>, field |-> "methodology"],
     [key |-> <<"m","e","t","h","o","d","s">>, field |-> "methodology"],
     [key |-> <<"d","a","t","a","s","e","t","s">>, field |-> "datasets"],
     [key |-> <<"d","a","t","a"," ","s","o","u","r","c","e","s">>, field |-> "datasets"],
     [key |-> <<"d","a","t","a">>, field |-> "datasets"] >>

\* field_name of a header no synonym matches
None == "None"

\* the match of a pattern that takes any run of "#" for a heading
HeaderGroupAnyLevel(line) ==
  LET hashes == LeadingRun(line, {"#"})
      rest == Drop(line, hashes)
      text == lstrip(rest)
  IN IF hashes = 0 \/ Len(rest) < 2 \/ rest[1] \notin Whitespace
          \/ \E i \in 1..Len(rest) : rest[i] = "\n"
     THEN <<>>
     ELSE IF text = <<>> THEN <<rest[Len(rest)]>> ELSE text

\* re.match(r"^(#{2,3})\s+(.+)$", line): group(2), or <<>> when the line does
\* not match. A match always has a non-empty group(2).
HeaderGroup2(line) ==
  LET hashes == IF startswith(line, <<"#","#","#">>) THEN 3
                ELSE IF startswith(line, <<"#","#">>) THEN 2 ELSE 0
      rest == Drop(line, hashes)
      text == lstrip(rest)
  IN IF hashes = 0 \/ Len(rest) < 2 \/ rest[1] \notin Whitespace
          \/ \E i \in 1..Len(rest) : rest[i] = "\n"
     THEN <<>>
     ELSE IF text = <<>> THEN <<rest[Len(rest)]>> ELSE text

\* a dict assignment that keeps the value of a key already present
SetItemKeepFirst(d, header, body) ==
  IF \E i \in 1..Len(d) : d[i].header = header
  THEN d
  ELSE Append(d, [header |-> header, content |-> body])

\* a dict assignment that moves a key already present to the end
SetItemMoveLast(d, header, body) ==
  LET Other(entry) == entry.header # header
  IN Append(SelectSeq(d, Other), [header |-> header, content |-> body])

\* sections[header] = body on a dict kept as an ordered list of entries
SetItem(d, header, body) ==
  IF \E i \in 1..Len(d) : d[i].header = header
  THEN [i \in 1..Len(d) |->
          IF d[i].header = header THEN [header |-> header, content |-> body]
          ELSE d[i]]
  ELSE Append(d, [header |-> header, content |-> body])

\* "\n".join(current_content).strip()
SectionBody(current_content) == strip(join(<<"\n">>, current_content))

\* the loop, had a level-3 heading been a line of the section it stands in
RECURSIVE ExtractLoopNested(_, _, _, _)
ExtractLoopNested(lines, d, current_header, current_content) ==
  IF lines = <<>>
  THEN IF current_header # <<>>
       THEN SetItem(d, current_header, SectionBody(current_content))
       ELSE d
  ELSE IF HeaderGroup2(lines[1]) # <<>> /\ ~startswith(lines[1], <<"#","#","#">>)
  THEN ExtractLoopNested(Tail(lines),
                   IF current_header # <<>>
                   THEN SetItem(d, current_header, SectionBody(current_content))
                   ELSE d,
                   strip(HeaderGroup2(lines[1])), <<>>)
  ELSE IF current_header # <<>>
  THEN ExtractLoopNested(Tail(lines), d, current_header,
                   Append(current_content, lines[1]))
  ELSE ExtractLoopNested(Tail(lines), d, current_header, current_content)

\* The loop of _extract_sections over the lines not yet read. current_header
\* is <<>> for None: the code only tests its truth value, and "" is false too.
RECURSIVE ExtractLoop(_, _, _, _)
ExtractLoop(lines, d, current_header, current_content) ==
  IF lines = <<>>
  THEN IF current_header # <<>>
       THEN SetItem(d, current_header, SectionBody(current_content))
       ELSE d
  ELSE IF HeaderGroup2(lines[1]) # <<>>
  THEN ExtractLoop(Tail(lines),
                   IF current_header # <<>>
                   THEN SetItem(d, current_header, SectionBody(current_content))
                   ELSE d,
                   strip(HeaderGroup2(lines[1])), <<>>)
  ELSE IF current_header # <<>>
  THEN ExtractLoop(Tail(lines), d, current_header,
                   Append(current_content, lines[1]))
  ELSE ExtractLoop(Tail(lines), d, current_header, current_content)

\* ReadmeParser._extract_sections
extract_sections(content) == ExtractLoop(splitLines(content), <<>>, <<>>, <<>>)

\* the for/break loop of _process_section over SECTION_MAPPING.items()
RECURSIVE FirstMatch(_, _)
FirstMatch(header_lower, i) ==
  IF i > Len(SECTION_MAPPING) THEN None
  ELSE IF contains(SECTION_MAPPING[i].key, header_lower)
  THEN SECTION_MAPPING[i].field
  ELSE FirstMatch(header_lower, i + 1)

\* the loop without its break: the last synonym that matches decides
RECURSIVE LastMatch(_, _)
LastMatch(header_lower, i) ==
  IF i < 1 THEN None
  ELSE IF contains(SECTION_MAPPING[i].key, header_lower)
  THEN SECTION_MAPPING[i].field
  ELSE LastMatch(header_lower, i - 1)

SectionFieldNoBreak(header) == LastMatch(lower(header), Len(SECTION_MAPPING))

\* _process_section: field_name for a header
SectionField(header) == FirstMatch(lower(header), 1)

\* re.sub(r"^[-*+]\s+", "", line)
StripBullet(line) ==
  IF Len(line) >= 2 /\ line[1] \in {"-", "*", "+"} /\ line[2] \in Whitespace
  THEN lstrip(Tail(line)) ELSE line

DigitRun(s) == LeadingRun(s, Digits)

\* re.sub(r"^\d+\.\s+", "", line)
StripNumbered(line) ==
  LET n == DigitRun(line)
  IN IF n >= 1 /\ Len(line) >= n + 2 /\ line[n + 1] = "." /\ line[n + 2] \in Whitespace
     THEN lstrip(Drop(line, n + 1)) ELSE line

\* re.sub(r"^>\s+", "", line)
StripQuote(line) ==
  IF Len(line) >= 2 /\ line[1] = ">" /\ line[2] \in Whitespace
  THEN lstrip(Tail(line)) ELSE line

\* length of the longest prefix of s holding no character of stop
RunNot(s, stop) ==
  IF \A i \in 1..Len(s) : s[i] \notin stop THEN Len(s)
  ELSE (CHOOSE i \in 1..Len(s) :
          s[i] \in stop /\ \A j \in 1..(i - 1) : s[j] \notin stop) - 1

\* Length of the match of \[([^\]]+)\]\([^\)]+\) at the start of s, 0 when it
\* does not match there; its group 1 is SubSeq(s, 2, 1 + RunNot(Tail(s), {"]"})).
LinkMatchLen(s) ==
  IF s = <<>> \/ s[1] # "[" THEN 0
  ELSE LET n == RunNot(Tail(s), {"]"})
           after == Drop(s, 1 + n)
       IN IF n = 0 \/ Len(after) < 2 \/ after[1] # "]" \/ after[2] # "(" THEN 0
          ELSE LET m == RunNot(Drop(after, 2), {")"})
               IN IF m = 0 \/ Len(after) < m + 3 \/ after[m + 3] # ")" THEN 0
                  ELSE 1 + n + 2 + m + 1

\* re.sub(r"\[([^\]]+)\]\([^\)]+\)", r"\1", line)
RECURSIVE SubLinks(_)
SubLinks(s) ==
  IF \A p \in 1..Len(s) : LinkMatchLen(Drop(s, p - 1)) = 0 THEN s
  ELSE LET p == CHOOSE q \in 1..Len(s) :
                  /\ LinkMatchLen(Drop(s, q - 1)) > 0
                  /\ \A r \in 1..(q - 1) : LinkMatchLen(Drop(s, r - 1)) = 0
           m == Drop(s, p - 1)
       IN Take(s, p - 1) \o SubSeq(m, 2, 1 + RunNot(Tail(m), {"]"}))
            \o SubLinks(Drop(m, LinkMatchLen(m)))

\* Length of the match of d([^c]+)d at the start of s, for a delimiter d made
\* of the character c only; 0 when it does not match there.
DelimMatchLen(s, d, c) ==
  IF ~startswith(s, d) THEN 0
  ELSE LET n == RunNot(Drop(s, Len(d)), {c})
       IN IF n = 0 \/ ~startswith(Drop(s, Len(d) + n), d) THEN 0
          ELSE Len(d) + n + Len(d)

\* re.sub of d([^c]+)d by r"\1"
RECURSIVE SubDelim(_, _, _)
SubDelim(s, d, c) ==
  IF \A p \in 1..Len(s) : DelimMatchLen(Drop(s, p - 1), d, c) = 0 THEN s
  ELSE LET p == CHOOSE q \in 1..Len(s) :
                  /\ DelimMatchLen(Drop(s, q - 1), d, c) > 0
                  /\ \A r \in 1..(q - 1) : DelimMatchLen(Drop(s, r - 1), d, c) = 0
           m == Drop(s, p - 1)
       IN Take(s, p - 1) \o SubSeq(m, Len(d) + 1, DelimMatchLen(m, d, c) - Len(d))
            \o SubDelim(Drop(m, DelimMatchLen(m, d, c)), d, c)

\* the substitutions, had the bullet one been applied again after the others
StripMarkersAgain(line) == StripBullet(StripQuote(StripNumbered(StripBullet(line))))

\* the three list-marker substitutions of _extract_items, in source order
StripMarkers(line) == StripQuote(StripNumbered(StripBullet(line)))

\* the inline-markup substitutions of _extract_items, in source order
StripInline(line) ==
  SubDelim(SubDelim(SubDelim(SubLinks(line), <<Backtick>>, Backtick), <<"*","*">>, "*"), <<"*">>, "*")

\* the loop body without the strip that follows the substitutions
CleanLineNoStrip(line) == StripInline(StripMarkers(strip(line)))

\* the body of the loop of _extract_items for one line that is not blank
CleanLine(line) == strip(StripInline(StripMarkers(strip(line))))

RECURSIVE ItemsOf(_)
ItemsOf(lines) ==
  IF lines = <<>> THEN <<>>
  ELSE IF strip(lines[1]) = <<>> THEN ItemsOf(Tail(lines))
  ELSE IF CleanLine(lines[1]) # <<>> /\ ~startswith(CleanLine(lines[1]), <<"#">>)
  THEN <<CleanLine(lines[1])>> \o ItemsOf(Tail(lines))
  ELSE ItemsOf(Tail(lines))

\* ReadmeParser._extract_items
extract_items(content) == ItemsOf(splitLines(content))

-----------------------------------------------------------------------------
(* Inputs of the parser runs *)

MaxWords == 3

MaxBlocks == 3

MaxTokens == 3

SeqsUpTo(S, n) == UNION {[1..k -> S] : k \in 0..n}

\* heading texts: one to MaxWords words separated by single spaces
HeadingWords ==
  {<<"R","e","s","e","a","r","c","h">>, <<"F","o","c","u","s">>, <<"A","r","e","a">>, <<"D","a","t","a">>, <<"M","i","g","r","a","t","i","o","n">>, <<"M","e","t","h","o","d","s">>,
   <<"Q","U","E","S","T","I","O","N","S">>, <<"N","o","t","e","s">>}

Headings == {join(<<" ">>, ws) : ws \in SeqsUpTo(HeadingWords, MaxWords) \ {<<>>}}

\* body lines: one to MaxTokens pieces of list and inline markup
LineTokens ==
  {<<"-"," ">>, <<"1","."," ">>, <<">"," ">>, <<"*","*">>, <<"*">>, <<Backtick>>, <<"[">>, <<"]","(","u",")">>, <<"a">>, <<" ">>, <<"#">>}

TokenLines == {Flatten(ts) : ts \in SeqsUpTo(LineTokens, MaxTokens) \ {<<>>}}

\* documents of up to MaxBlocks blocks of lines
Blocks ==
  {<<"#","#"," ","K","e","y","w","o","r","d","s","\n","a">>, <<"#","#"," ","K","e","y","w","o","r","d","s","\n","b">>, <<"#","#"," ","T","a","g","s","\n","x">>, <<"#","#","#"," ","N","o","t","e","s","\n","n">>,
   <<"#"," ","T","i","t","l","e">>, <<"#","#","#","#"," ","D","e","e","p">>, <<"#","#"," ","k","e","y","w","o","r","d","s","\n","*"," ","a">>, <<"y">>}

BlockDocs == {join(<<"\n">>, bs) : bs \in SeqsUpTo(Blocks, MaxBlocks)}

HeadingDocs == {<<"#","#"," ">> \o h \o <<"\n","-"," ","i","t","e","m">> : h \in Headings}

LineDocs == {<<"#","#"," ","K","e","y","w","o","r","d","s","\n">> \o l : l \in TokenLines}

Documents == BlockDocs \cup HeadingDocs \cup LineDocs

-----------------------------------------------------------------------------
(* ReadmeParser.parse as a run: Parse, then ProcessSection once per entry of
   sections, then ReturnMetadata *)

ReadmeFile(exists, decodable, text) ==
  [exists |-> exists, decodable |-> decodable, text |-> text]

Missing == ReadmeFile(FALSE, TRUE, <<>>)

Undecodable == ReadmeFile(TRUE, FALSE, <<>>)

\* an optional value: Python None, or a value that is there
Absent == [found |-> FALSE]

Found(v) == [found |-> TRUE, value |-> v]

\* the variables of the parser run while another run is modelled
ParseIdle ==
  /\ readme = Missing
  /\ sections = <<>>
  /\ nxt = 0
  /\ field_name = None
  /\ items = <<>>
  /\ parsed = Absent

\* the two instances of AIResearchAssistant, both on the same project_path
Assistants == {"a1", "a2"}

NoCall == [assistant |-> "none", op |-> "none", error |-> "none", again |-> FALSE]

\* a project directory that holds nothing
EmptyProject ==
  [name |-> "proj",
   pyproject |-> [exists |-> FALSE, wellformed |-> FALSE, fields |-> {},
                  name |-> "", keywords |-> <<>>, dependencies |-> <<>>],
   setup_py |-> [exists |-> FALSE, readable |-> FALSE, text |-> <<>>,
                 name_match |-> FALSE, name |-> "", keywords |-> <<>>],
   requirements |-> [exists |-> FALSE, readable |-> FALSE, text |-> <<>>],
   readme |-> Missing,
   files |-> <<>>]

DetectIdle ==
  /\ project = EmptyProject
  /\ project_metadata = Absent
  /\ research_metadata = Absent
  /\ detected = <<>>
  /\ scanned = 0

AssistantsIdle ==
  /\ caller = "none"
  /\ analysis = [a \in Assistants |-> Absent]
  /\ analyzedOn = [a \in Assistants |-> Absent]
  /\ outcome = NoCall

InitParse ==
  /\ readme \in {Missing, Undecodable} \cup {ReadmeFile(TRUE, TRUE, d) : d \in Documents}
  /\ pc = "parse"
  /\ sections = <<>>
  /\ nxt = 0
  /\ field_name = None
  /\ items = <<>>
  /\ metadata = ResearchMetadata
  /\ parsed = Absent
  /\ queries = <<>>
  /\ returned = Absent
  /\ DetectIdle
  /\ AssistantsIdle

\* parse: the file does not exist
ParseMissing ==
  /\ pc = "parse"
  /\ ~readme.exists
  /\ parsed' = Absent
  /\ pc' = "done"
  /\ UNCHANGED <<readme, sections, nxt, field_name, items, metadata, queries, returned, detectVars, assistantVars>>

\* parse: read_text raises, the except clause returns None
ParseUndecodable ==
  /\ pc = "parse"
  /\ readme.exists /\ ~readme.decodable
  /\ parsed' = Absent
  /\ pc' = "done"
  /\ UNCHANGED <<readme, sections, nxt, field_name, items, metadata, queries, returned, detectVars, assistantVars>>

\* parse reads the text; _parse_content creates the metadata and extracts the sections
ParseContent ==
  /\ pc = "parse"
  /\ readme.exists /\ readme.decodable
  /\ metadata' = ResearchMetadata
  /\ sections' = extract_sections(readme.text)
  /\ nxt' = 0
  /\ pc' = "process"
  /\ UNCHANGED <<readme, field_name, items, parsed, queries, returned, detectVars, assistantVars>>

\* the assignment that would replace the items already in the field
Replace(m, f, its) == [m EXCEPT ![f] = its]

\* current_items.extend(items)
Extend(m, f, its) == [m EXCEPT ![f] = @ \o its]

\* _process_section, had it kept the items of a section that maps to no field
\* (under keywords)
process_section_keep(header, content, m) ==
  IF SectionField(header) = None THEN Extend(m, "keywords", extract_items(content))
  ELSE Extend(m, SectionField(header), extract_items(content))

\* ReadmeParser._process_section: the metadata it leaves
process_section(header, content, m) ==
  IF SectionField(header) = None THEN m
  ELSE Extend(m, SectionField(header), extract_items(content))

\* the loop of _parse_content from entry i of the sections on
RECURSIVE ProcessFrom(_, _, _)
ProcessFrom(secs, i, m) ==
  IF i > Len(secs) THEN m
  ELSE ProcessFrom(secs, i + 1, process_section(secs[i].header, secs[i].content, m))

\* ReadmeParser._parse_content
parse_content(content) == ProcessFrom(extract_sections(content), 1, ResearchMetadata)

\* ReadmeParser.parse
parse(file) ==
  IF ~file.exists \/ ~file.decodable THEN Absent
  ELSE Found(parse_content(file.text))

\* one iteration of the loop of _parse_content: _process_section
ProcessSection ==
  /\ pc = "process"
  /\ nxt < Len(sections)
  /\ LET header == sections[nxt + 1].header
         content == sections[nxt + 1].content
     IN /\ field_name' = SectionField(header)
        /\ items' = IF SectionField(header) = None THEN items
                    ELSE extract_items(content)
        /\ metadata' = process_section(header, content, metadata)
  /\ nxt' = nxt + 1
  /\ UNCHANGED <<pc, readme, sections, parsed, queries, returned, detectVars, assistantVars>>

\* _parse_content returns the metadata
ReturnMetadata ==
  /\ pc = "process"
  /\ nxt = Len(sections)
  /\ parsed' = Found(metadata)
  /\ pc' = "done"
  /\ UNCHANGED <<readme, sections, nxt, field_name, items, metadata, queries, returned, detectVars, assistantVars>>

NextParse ==
  \/ ParseMissing
  \/ ParseUndecodable
  \/ ParseContent
  \/ ProcessSection
  \/ ReturnMetadata

SpecParse == InitParse /\ [][NextParse]_vars

-----------------------------------------------------------------------------
(* ReadmeParser.extract_research_queries *)

Min(a, b) == IF a < b THEN a ELSE b

\* s[:n]
Slice(s, n) == Take(s, Min(n, Len(s)))

\* the query of a question, had one trailing "?" at most been removed
QuestionQueryOnce(question) ==
  strip(IF question # <<>> /\ question[Len(question)] = "?"
        THEN Take(question, Len(question) - 1)
        ELSE question)

\* question.rstrip("?").strip()
QuestionQuery(question) == strip(rstripChar(question, "?"))

RECURSIVE QuestionQueries(_)
QuestionQueries(qs) ==
  IF qs = <<>> THEN <<>> ELSE <<QuestionQuery(qs[1])>> \o QuestionQueries(Tail(qs))

\* step 3: the combined keywords
KeywordQueries(keywords) ==
  IF Len(keywords) >= 2 THEN <<join(<<" ">>, Slice(keywords, 3))>> ELSE <<>>

RECURSIVE InnerLoop(_, _)
InnerLoop(outer, inners) ==
  IF inners = <<>> THEN <<>>
  ELSE <<[outer |-> outer, inner |-> inners[1]]>> \o InnerLoop(outer, Tail(inners))

\* the pairs two nested for loops visit, in order
RECURSIVE NestedLoops(_, _)
NestedLoops(outers, inners) ==
  IF outers = <<>> THEN <<>>
  ELSE InnerLoop(outers[1], inners) \o NestedLoops(Tail(outers), inners)

\* step 4 with the loops exchanged: the focus loop outside
FocusMethodQueries(methodology, research_focus) ==
  IF methodology # <<>> /\ research_focus # <<>>
  THEN LET pairs == NestedLoops(Slice(research_focus, 2), Slice(methodology, 2))
       IN [i \in 1..Len(pairs) |-> pairs[i].inner \o <<" ">> \o pairs[i].outer]
  ELSE <<>>

\* step 4: method and focus, the method loop outside
MethodFocusQueries(methodology, research_focus) ==
  IF methodology # <<>> /\ research_focus # <<>>
  THEN LET pairs == NestedLoops(Slice(methodology, 2), Slice(research_focus, 2))
       IN [i \in 1..Len(pairs) |-> pairs[i].outer \o <<" ">> \o pairs[i].inner]
  ELSE <<>>

extract_research_queries(m) ==
  m["research_focus"]
    \o QuestionQueries(m["research_questions"])
    \o KeywordQueries(m["keywords"])
    \o MethodFocusQueries(m["methodology"], m["research_focus"])

MaxFocus == 3

MaxQuestions == 2

MaxKeywords == 4

MaxMethods == 3

FocusItems == {<<"A","n","o","m","a","l","y"," ","D","e","t","e","c","t","i","o","n">>, <<"M","L">>}

QuestionItems == {<<"W","h","y","?">>, <<"H","o","w"," ","?","?">>}

MethodItems == {<<"M","e","t","h","o","d"," ","A">>, <<"B">>}

KeywordPool == <<<<"k","e","y","1">>, <<"k","e","y","2">>, <<"k","e","y","3">>, <<"k","e","y","4">>, <<"k","e","y","5">>, <<"k","e","y","6">>>>

QueryInputs ==
  {[ResearchMetadata EXCEPT !["research_focus"] = f,
                            !["research_questions"] = q,
                            !["keywords"] = Take(KeywordPool, k),
                            !["methodology"] = me] :
     f \in SeqsUpTo(FocusItems, MaxFocus),
     q \in SeqsUpTo(QuestionItems, MaxQuestions),
     k \in 0..MaxKeywords,
     me \in SeqsUpTo(MethodItems, MaxMethods)}

InitQueries ==
  /\ ParseIdle
  /\ metadata \in QueryInputs
  /\ queries = <<>>
  /\ returned = Absent
  /\ pc = "queries"
  /\ DetectIdle
  /\ AssistantsIdle

ExtractResearchQueries ==
  /\ pc = "queries"
  /\ queries' = extract_research_queries(metadata)
  /\ pc' = "done"
  /\ UNCHANGED <<parseVars, returned, detectVars, assistantVars>>

NextQueries == ExtractResearchQueries

SpecQueries == InitQueries /\ [][NextQueries]_vars

-----------------------------------------------------------------------------
(* ai_research_assistant.py: project metadata *)

\* ProjectMetadata(name, keywords, dependencies); the other fields keep their
\* defaults in every run modelled
ProjectMetadata(name, keywords, dependencies) ==
  [name |-> name, keywords |-> keywords, dependencies |-> dependencies,
   dev_dependencies |-> <<>>, description |-> "", version |-> ""]

\* pyproject.toml: fields is the set of keys its [project_path] table declares
PyprojectFile(exists, wellformed, fields, name, keywords, dependencies) ==
  [exists |-> exists, wellformed |-> wellformed, fields |-> fields,
   name |-> name, keywords |-> keywords, dependencies |-> dependencies]

\* the lookup without the default
GetDeclared(file, key, default) == file[key]

\* project_data.get(key, default)
Get(file, key, default) == IF key \in file.fields THEN file[key] ELSE default

\* extract_from_pyproject, had a malformed file given the defaults of an
\* empty [project] table
extract_from_pyproject_lenient(project_path) ==
  IF ~project_path.pyproject.exists THEN Absent
  ELSE IF ~project_path.pyproject.wellformed
  THEN Found(ProjectMetadata(project_path.name, <<>>, <<>>))
  ELSE Found(ProjectMetadata(Get(project_path.pyproject, "name", project_path.name),
                             Get(project_path.pyproject, "keywords", <<>>),
                             Get(project_path.pyproject, "dependencies", <<>>)))

\* ProjectMetadataExtractor.extract_from_pyproject
extract_from_pyproject(project_path) ==
  IF ~project_path.pyproject.exists THEN Absent
  ELSE IF ~project_path.pyproject.wellformed THEN Absent
  ELSE Found(ProjectMetadata(Get(project_path.pyproject, "name", project_path.name),
                             Get(project_path.pyproject, "keywords", <<>>),
                             Get(project_path.pyproject, "dependencies", <<>>)))

\* setup.py: its text, and what the searches of extract_from_setup_py find in
\* it: whether name = "..." occurs and its value, and the keywords of
\* keywords = [...] (empty when that does not occur)
SetupFile(exists, readable, text, name_match, name, keywords) ==
  [exists |-> exists, readable |-> readable, text |-> text,
   name_match |-> name_match, name |-> name, keywords |-> keywords]

\* ProjectMetadataExtractor.extract_from_setup_py
extract_from_setup_py(project_path) ==
  IF ~project_path.setup_py.exists THEN Absent
  ELSE IF ~project_path.setup_py.readable THEN Absent
  ELSE Found(ProjectMetadata(
               IF project_path.setup_py.name_match THEN project_path.setup_py.name
               ELSE project_path.name,
               project_path.setup_py.keywords, <<>>))

TextFile(exists, readable, text) ==
  [exists |-> exists, readable |-> readable, text |-> text]

\* the reduction without the split at "<="
RequirementNameTwoSplits(line) ==
  strip(splitFirst(splitFirst(line, <<"=","=">>), <<">","=">>))

\* line.split("==")[0].split(">=")[0].split("<=")[0].strip()
RequirementName(line) ==
  strip(splitFirst(splitFirst(splitFirst(line, <<"=","=">>), <<">","=">>), <<"<","=">>))

RECURSIVE RequirementNames(_)
RequirementNames(lines) ==
  IF lines = <<>> THEN <<>>
  ELSE IF strip(lines[1]) # <<>> /\ ~startswith(strip(lines[1]), <<"#">>)
  THEN <<RequirementName(lines[1])>> \o RequirementNames(Tail(lines))
  ELSE RequirementNames(Tail(lines))

\* ProjectMetadataExtractor.extract_from_requirements
extract_from_requirements(project_path) ==
  IF ~project_path.requirements.exists THEN <<>>
  ELSE IF ~project_path.requirements.readable THEN <<>>
  ELSE RequirementNames(splitLines(project_path.requirements.text))

\* _extract_project_metadata, had it added the requirements.txt dependencies
\* to what setup.py gives
merge_project_metadata(project_path) ==
  IF extract_from_pyproject(project_path).found THEN extract_from_pyproject(project_path)
  ELSE IF extract_from_setup_py(project_path).found
  THEN Found([extract_from_setup_py(project_path).value EXCEPT
                !.dependencies = extract_from_requirements(project_path)])
  ELSE IF extract_from_requirements(project_path) # <<>>
  THEN Found(ProjectMetadata(project_path.name, <<>>, extract_from_requirements(project_path)))
  ELSE Found(ProjectMetadata(project_path.name, <<>>, <<>>))

\* _extract_project_metadata, had a pyproject.toml that declares nothing been
\* passed over like a missing one
extract_project_metadata_skip_bare(project_path) ==
  IF /\ extract_from_pyproject(project_path).found
     /\ extract_from_pyproject(project_path).value
          # ProjectMetadata(project_path.name, <<>>, <<>>)
  THEN extract_from_pyproject(project_path)
  ELSE IF extract_from_setup_py(project_path).found THEN extract_from_setup_py(project_path)
  ELSE IF extract_from_requirements(project_path) # <<>>
  THEN Found(ProjectMetadata(project_path.name, <<>>, extract_from_requirements(project_path)))
  ELSE Found(ProjectMetadata(project_path.name, <<>>, <<>>))

\* AIResearchAssistant._extract_project_metadata
extract_project_metadata(project_path) ==
  IF extract_from_pyproject(project_path).found THEN extract_from_pyproject(project_path)
  ELSE IF extract_from_setup_py(project_path).found THEN extract_from_setup_py(project_path)
  ELSE IF extract_from_requirements(project_path) # <<>>
  THEN Found(ProjectMetadata(project_path.name, <<>>, extract_from_requirements(project_path)))
  ELSE Found(ProjectMetadata(project_path.name, <<>>, <<>>))

\* AIResearchAssistant._extract_research_metadata
extract_research_metadata(project_path) == parse(project_path.readme)

-----------------------------------------------------------------------------
(* ai_research_assistant.py: technology detection *)

\* tech_mapping of _detect_technologies, in declaration order
tech_mapping ==
  << [key |-> <<"n","u","m","p","y">>, name |-> <<"N","u","m","P","y">>],
     [key |-> <<"p","a","n","d","a","s">>, name |-> <<"P","a","n","d","a","s">>],
     [key |-> <<"m","a","t","p","l","o","t","l","i","b">>, name |-> <<"M","a","t","p","l","o","t","l","i","b">>],
     [key |-> <<"s","c","i","p","y">>, name |-> <<"S","c","i","P","y">>],
     [key |-> <<"s","k","l","e","a","r","n">>, name |-> <<"S","c","i","k","i","t","-","l","e","a","r","n">>],
     [key |-> <<"s","c","i","k","i","t","-","l","e","a","r","n">>, name |-> <<"S","c","i","k","i","t","-","l","e","a","r","n">>],
     [key |-> <<"t","e","n","s","o","r","f","l","o","w">>, name |-> <<"T","e","n","s","o","r","F","l","o","w">>],
     [key |-> <<"t","o","r","c","h">>, name |-> <<"P","y","T","o","r","c","h">>],
     [key |-> <<"p","y","t","o","r","c","h">>, name |-> <<"P","y","T","o","r","c","h">>],
     [key |-> <<"p","y","d","a","n","t","i","c">>, name |-> <<"P","y","d","a","n","t","i","c">>],
     [key |-> <<"f","a","s","t","a","p","i">>, name |-> <<"F","a","s","t","A","P","I">>],
     [key |-> <<"f","l","a","s","k">>, name |-> <<"F","l","a","s","k">>],
     [key |-> <<"d","j","a","n","g","o">>, name |-> <<"D","j","a","n","g","o">>],
     [key |-> <<"s","t","r","e","a","m","l","i","t">>, name |-> <<"S","t","r","e","a","m","l","i","t">>],
     [key |-> <<"m","c","p">>, name |-> <<"M","o","d","e","l"," ","C","o","n","t","e","x","t"," ","P","r","o","t","o","c","o","l">>],
     [key |-> <<"h","a","t","c","h">>, name |-> <<"H","a","t","c","h">>],
     [key |-> <<"p","y","t","e","s","t">>, name |-> <<"p","y","t","e","s","t">>],
     [key |-> <<"t","r","a","n","s","f","o","r","m","e","r","s">>, name |-> <<"H","u","g","g","i","n","g"," ","F","a","c","e"," ","T","r","a","n","s","f","o","r","m","e","r","s">>],
     [key |-> <<"l","s","t","m">>, name |-> <<"L","S","T","M"," ","N","e","t","w","o","r","k","s">>],
     [key |-> <<"c","n","n">>, name |-> <<"C","o","n","v","o","l","u","t","i","o","n","a","l"," ","N","e","u","r","a","l"," ","N","e","t","w","o","r","k","s">>],
     [key |-> <<"r","a","n","d","o","m"," ","f","o","r","e","s","t">>, name |-> <<"R","a","n","d","o","m"," ","F","o","r","e","s","t">>],
     [key |-> <<"x","g","b","o","o","s","t">>, name |-> <<"X","G","B","o","o","s","t">>] >>

\* the provenance tags, in the order of the scans that give them
TagManifestKeywords == "pyproject.toml keywords"

TagDependencies == "dependencies"

TagCodeImports == "code imports"

TagReadmeTechnologies == "README technologies"

TagReadmeKeywords == "README keywords"

TagReadmeResearch == "README research focus"

\* det, the dict detected: tech_name -> [sources], kept as the ordered list of its entries
HasKey(det, tech_name) == \E i \in 1..Len(det) : det[i].tech = tech_name

\* the two ifs of every scan, without the test that the tag is not there yet
AddSourceUnchecked(det, tech_name, tag) ==
  LET d == IF HasKey(det, tech_name) THEN det
           ELSE Append(det, [tech |-> tech_name, sources |-> <<>>])
  IN [i \in 1..Len(d) |->
        IF d[i].tech = tech_name
        THEN [d[i] EXCEPT !.sources = Append(@, tag)]
        ELSE d[i]]

\* the two ifs of every scan, the tag put in front of the list
AddSourceInFront(det, tech_name, tag) ==
  LET d == IF HasKey(det, tech_name) THEN det
           ELSE Append(det, [tech |-> tech_name, sources |-> <<>>])
  IN [i \in 1..Len(d) |->
        IF d[i].tech = tech_name /\ tag \notin Range(d[i].sources)
        THEN [d[i] EXCEPT !.sources = <<tag>> \o @]
        ELSE d[i]]

\* if tech_name not in detected: detected[tech_name] = []
\* if tag not in detected[tech_name]: detected[tech_name].append(tag)
AddSource(det, tech_name, tag) ==
  LET d == IF HasKey(det, tech_name) THEN det
           ELSE Append(det, [tech |-> tech_name, sources |-> <<>>])
  IN [i \in 1..Len(d) |->
        IF d[i].tech = tech_name /\ tag \notin Range(d[i].sources)
        THEN [d[i] EXCEPT !.sources = Append(@, tag)]
        ELSE d[i]]

\* the containment test the wrong way round: the text inside the token
TextInToken(tech_key, text) == contains(text, tech_key)

\* if tech_key in text
TokenIn(tech_key, text) == contains(tech_key, text)

\* the entries of tech_mapping whose token passes the test, in table order
Matches(text) ==
  LET Hit(entry) == TokenIn(entry.key, text)
  IN SelectSeq(tech_mapping, Hit)

RECURSIVE AddSources(_, _, _)
AddSources(det, entries, tag) ==
  IF entries = <<>> THEN det
  ELSE AddSources(AddSource(det, entries[1].name, tag), Tail(entries), tag)

\* for tech_key, tech_name in tech_mapping.items(): if tech_key in text: ...
ScanText(det, text, tag) == AddSources(det, Matches(text), tag)

\* a loop over items, each lower-cased and scanned for every token
RECURSIVE ScanItems(_, _, _)
ScanItems(det, its, tag) ==
  IF its = <<>> THEN det
  ELSE ScanItems(ScanText(det, lower(its[1]), tag), Tail(its), tag)

\* FONTE 1
ScanKeywordsOf(det, md) ==
  IF md.found /\ md.value.keywords # <<>>
  THEN ScanItems(det, md.value.keywords, TagManifestKeywords)
  ELSE det

\* dep.split(">=")[0].split("==")[0].split("[")[0].lower().strip()
DepName(dep) ==
  strip(lower(splitFirst(splitFirst(splitFirst(dep, <<">","=">>), <<"=","=">>), <<"[">>)))

InMapping(dep_name) == \E i \in 1..Len(tech_mapping) : tech_mapping[i].key = dep_name

\* tech_mapping[dep_name]
MappedName(dep_name) ==
  tech_mapping[CHOOSE i \in 1..Len(tech_mapping) : tech_mapping[i].key = dep_name].name

RECURSIVE ScanDeps(_, _)
ScanDeps(det, deps) ==
  IF deps = <<>> THEN det
  ELSE ScanDeps(IF InMapping(DepName(deps[1]))
                THEN AddSource(det, MappedName(DepName(deps[1])), TagDependencies)
                ELSE det,
                Tail(deps))

\* FONTE 2
ScanDependenciesOf(det, md) ==
  IF md.found /\ md.value.dependencies # <<>>
  THEN ScanDeps(det, md.value.dependencies)
  ELSE det

\* a source file rglob("*.py") yields: read_text raises when it is not readable
SourceFile(readable, content) == [readable |-> readable, content |-> content]

\* the text of 4c, had the goals been part of it
all_research_text_and_goals(rm) ==
  lower(join(<<" ">>,
             rm["research_focus"] \o rm["methodology"] \o rm["research_questions"]
               \o rm["goals"]))

\* ' '.join(research_focus + methodology + research_questions).lower()
all_research_text(rm) ==
  lower(join(<<" ">>,
             rm["research_focus"] \o rm["methodology"] \o rm["research_questions"]))

\* sorted() of a collection of distinct str
RECURSIVE Sorted(_)
Sorted(S) ==
  IF S = {} THEN <<>>
  ELSE LET least == CHOOSE x \in S : \A y \in S : y = x \/ StrLess(x, y)
       IN <<least>> \o Sorted(S \ {least})

Keys(det) == [i \in 1..Len(det) |-> det[i].tech]

\* the keys in insertion order, not sorted
UnsortedTechs(det) == IF det = <<>> THEN <<>> ELSE Keys(det)

\* sorted_techs = sorted(detected.keys())
SortedTechs(det) == Sorted(Range(Keys(det)))

\* detected[tech]
SourcesOf(det, tech_name) ==
  det[CHOOSE i \in 1..Len(det) : det[i].tech = tech_name].sources

\* detection_sources = {tech: detected[tech] for tech in sorted_techs}
DetectionSources(det) ==
  LET techs == SortedTechs(det)
  IN IF techs = <<>> THEN <<>>
     ELSE [i \in 1..Len(techs) |->
             [tech |-> techs[i], sources |-> SourcesOf(det, techs[i])]]

\* what a run would start from if it kept the detections the assistant holds
KeepDetected(held) == IF held.found THEN held.value.detection_sources ELSE <<>>

\* detected = {} of _detect_technologies: nothing the assistant holds goes in
NewDetected(held) == <<>>

IsImportLine(line) ==
  startswith(strip(line), <<"i","m","p","o","r","t"," ">>) \/ startswith(strip(line), <<"f","r","o","m"," ">>)

ImportLines(content) ==
  {strip(l) : l \in {x \in Range(splitLines(content)) : IsImportLine(x)}}

\* the loop of _extract_imports: the first read that raises ends it
RECURSIVE ImportsOf(_)
ImportsOf(files) ==
  IF files = <<>> THEN {}
  ELSE IF ~files[1].readable THEN {}
  ELSE ImportLines(files[1].content) \cup ImportsOf(Tail(files))

\* the imports as a list in the order of the files, not sorted as a whole
RECURSIVE extract_imports_file_order(_)
extract_imports_file_order(files) ==
  IF files = <<>> THEN <<>>
  ELSE IF ~files[1].readable THEN <<>>
  ELSE Sorted(ImportLines(files[1].content)) \o extract_imports_file_order(Tail(files))

\* AIResearchAssistant._extract_imports
extract_imports(files) == Sorted(ImportsOf(files))

\* ProjectAnalysis(...) as analyze_project builds it
ProjectAnalysis(project_path, md, research, det) ==
  [project_name |-> IF md.found THEN md.value.name ELSE project_path.name,
   files_analyzed |-> Len(project_path.files),
   technologies |-> SortedTechs(det),
   suggestions |-> <<>>,
   relevant_papers |-> <<>>,
   relevant_models |-> <<>>,
   metadata |-> md,
   research_metadata |-> research,
   imports |-> extract_imports(project_path.files),
   detection_sources |-> DetectionSources(det)]

\* if not self.analysis, or if it found no technology
NoAnalysisOrNoTechnology(held) == ~held.found \/ held.value.technologies = <<>>

\* if not self.analysis
NoAnalysis(held) == ~held.found

\* how suggest_improvements ends
suggest_improvements(held) == IF NoAnalysis(held) THEN "ValueError" ELSE "none"

\* how generate_report ends: after its own test it calls
\* search_relevant_research, which raises nothing, and suggest_improvements
generate_report(held) ==
  IF NoAnalysis(held) THEN "ValueError" ELSE suggest_improvements(held)

-----------------------------------------------------------------------------
(* AIResearchAssistant.search_relevant_research *)

\* members of ResearchArea (a StrEnum: str() of a member is its value)
MACHINE_LEARNING == <<"m","a","c","h","i","n","e","_","l","e","a","r","n","i","n","g">>

MODEL_CONTEXT_PROTOCOL == <<"m","o","d","e","l","_","c","o","n","t","e","x","t","_","p","r","o","t","o","c","o","l">>

\* the chain of tests on area: what it leaves in area, None included
SearchArea(held, area) ==
  IF ~area.found /\ held.found /\ held.value.research_metadata.found
  THEN (IF extract_research_queries(held.value.research_metadata.value) # <<>>
        THEN Found(extract_research_queries(held.value.research_metadata.value)[1])
        ELSE area)
  ELSE IF ~area.found /\ held.found /\ held.value.metadata.found
  THEN (IF held.value.metadata.value.keywords # <<>>
        THEN Found(held.value.metadata.value.keywords[1])
        ELSE Found(MACHINE_LEARNING))
  ELSE IF ~area.found THEN Found(MACHINE_LEARNING)
  ELSE area

\* str(area)
StrOf(area) == IF area.found THEN area.value ELSE <<"N","o","n","e">>

Paper(title, url) == [title |-> title, url |-> url]

McpPapers ==
  <<Paper("Model Context Protocol: Standardizing LLM-Tool Integration",
          "https://modelcontextprotocol.io")>>

OtherPapers ==
  <<Paper("Benchmarking ML and DL for Fault Detection", "https://hf.co/papers/2505.06295")>>

\* the simulated papers of an area
PapersFor(area) ==
  IF contains(<<"m","c","p">>, lower(StrOf(area))) \/ contains(<<"c","o","n","t","e","x","t">>, lower(StrOf(area)))
  THEN McpPapers
  ELSE OtherPapers

\* AIResearchAssistant.search_relevant_research, max_papers >= 0
search_relevant_research(held, area, max_papers) ==
  Slice(PapersFor(SearchArea(held, area)), max_papers)

-----------------------------------------------------------------------------
(* One run of analyze_project, step by step, by assistant a1 *)

MaxFiles == 2

Project(pyproject, setup_py, requirements, readme_md, files) ==
  [name |-> "proj", pyproject |-> pyproject, setup_py |-> setup_py,
   requirements |-> requirements, readme |-> readme_md, files |-> files]

KeywordLists == {<<>>, <<<<"m","c","p">>>>, <<<<"M","C","P"," ","S","e","r","v","e","r">>, <<"P","y","T","o","r","c","h">>>>}

DependencyLists ==
  {<<>>, <<<<"n","u","m","p","y",">","=","1",".","2","0">>>>, <<<<"t","o","r","c","h","=","=","2",".","0">>, <<"P","y","d","a","n","t","i","c","[","e","m","a","i","l","]">>, <<"p","y","t","o","r","c","h","-","l","i","g","h","t","n","i","n","g">>, <<"t","o","r","c","h","v","i","s","i","o","n">>, <<"p","a","n","d","a","s","<","=","2">>>>}

AllFields == {"name", "keywords", "dependencies"}

PyprojectFiles ==
  {EmptyProject.pyproject,
   PyprojectFile(TRUE, FALSE, {}, "", <<>>, <<>>),
   PyprojectFile(TRUE, TRUE, {}, "", <<>>, <<>>)}
  \cup {PyprojectFile(TRUE, TRUE, AllFields, "demo", k, d) :
          k \in KeywordLists, d \in DependencyLists}

SetupText == <<"f","r","o","m"," ","s","e","t","u","p","t","o","o","l","s"," ","i","m","p","o","r","t"," ","s","e","t","u","p","\n","s","e","t","u","p","(","n","a","m","e","=","'","l","e","g","a","c","y","'",","," ","k","e","y","w","o","r","d","s","=","[","'","F","l","a","s","k","'","]",")">>

\* no setup.py, or one that rglob yields before or after the other files
SetupFiles ==
  {[file |-> EmptyProject.setup_py, first |-> FALSE]}
  \cup {[file |-> SetupFile(TRUE, TRUE, SetupText, TRUE, "legacy", <<<<"F","l","a","s","k">>>>),
          first |-> b] : b \in BOOLEAN}

\* setup.py is one of the *.py files of the directory
WithSetup(s, files) ==
  IF ~s.file.exists THEN files
  ELSE IF s.first THEN <<SourceFile(s.file.readable, s.file.text)>> \o files
  ELSE files \o <<SourceFile(s.file.readable, s.file.text)>>

RequirementsFiles ==
  {EmptyProject.requirements, TextFile(TRUE, TRUE, <<"n","u","m","p","y","=","=","1",".","0","\n","#"," ","p","i","n","n","e","d","\n","\n"," ","p","a","n","d","a","s"," ">>)}

ReadmeFiles ==
  {Missing,
   ReadmeFile(TRUE, TRUE, <<"#"," ","T","i","t","l","e","\n","t","e","x","t">>),
   ReadmeFile(TRUE, TRUE, <<"#","#"," ","K","e","y","w","o","r","d","s","\n","-"," ","N","u","m","P","y","\n","-"," ","p","y","t","o","r","c","h",","," ","M","C","P">>),
   ReadmeFile(TRUE, TRUE, <<"#","#"," ","T","e","c","h","n","o","l","o","g","i","e","s","\n","-"," ","P","y","T","o","r","c","h","\n","#","#"," ","M","e","t","h","o","d","s","\n","-"," ","L","S","T","M"," ","o","n"," ","t","o","r","c","h","\n","#","#"," ","G","o","a","l","s","\n","-"," ","p","a","n","d","a","s">>)}

SourceFiles ==
  {SourceFile(FALSE, <<>>),
   SourceFile(TRUE, <<"x"," ","="," ","1">>),
   SourceFile(TRUE, <<"i","m","p","o","r","t"," ","n","u","m","p","y"," ","a","s"," ","n","p">>),
   SourceFile(TRUE, <<"i","m","p","o","r","t"," ","t","o","r","c","h","\n"," "," ","f","r","o","m"," ","p","a","n","d","a","s"," ","i","m","p","o","r","t"," ","D","a","t","a","F","r","a","m","e","\n","i","m","p","o","r","t"," ","M","C","P">>)}

DetectProjects ==
  {Project(p, s.file, r, m, WithSetup(s, f)) :
     p \in PyprojectFiles, s \in SetupFiles, r \in RequirementsFiles,
     m \in ReadmeFiles, f \in SeqsUpTo(SourceFiles, MaxFiles)}

InitDetect ==
  /\ ParseIdle
  /\ metadata = ResearchMetadata
  /\ queries = <<>>
  /\ returned = Absent
  /\ project \in DetectProjects
  /\ project_metadata = Absent
  /\ research_metadata = Absent
  /\ detected = <<>>
  /\ scanned = 0
  /\ caller = "a1"
  /\ analysis = [a \in Assistants |-> Absent]
  /\ analyzedOn = [a \in Assistants |-> Absent]
  /\ outcome = NoCall
  /\ pc = "analyze"

ExtractProjectMetadata ==
  /\ pc = "analyze"
  /\ project_metadata' = extract_project_metadata(project)
  /\ pc' = "readme"
  /\ UNCHANGED <<parseVars, queries, returned, project, research_metadata, detected, scanned,
                 assistantVars>>

ExtractResearchMetadata ==
  /\ pc = "readme"
  /\ research_metadata' = extract_research_metadata(project)
  /\ pc' = "keywords"
  /\ UNCHANGED <<parseVars, queries, returned, project, project_metadata, detected, scanned,
                 assistantVars>>

ScanKeywords ==
  /\ pc = "keywords"
  /\ detected' = ScanKeywordsOf(NewDetected(analysis[caller]), project_metadata)
  /\ scanned' = 0
  /\ pc' = "dependencies"
  /\ UNCHANGED <<parseVars, queries, returned, project, project_metadata, research_metadata,
                 assistantVars>>

ScanDependencies ==
  /\ pc = "dependencies"
  /\ detected' = ScanDependenciesOf(detected, project_metadata)
  /\ pc' = "files"
  /\ UNCHANGED <<parseVars, queries, returned, project, project_metadata, research_metadata,
                 scanned, assistantVars>>

\* FONTE 3, one turn of the loop: the next file is read and scanned
ScanFile ==
  /\ pc = "files"
  /\ scanned < Len(project.files)
  /\ project.files[scanned + 1].readable
  /\ detected' = ScanText(detected, lower(project.files[scanned + 1].content),
                          TagCodeImports)
  /\ scanned' = scanned + 1
  /\ UNCHANGED <<parseVars, queries, returned, pc, project, project_metadata, research_metadata,
                 assistantVars>>

\* FONTE 3: every file has been read
ScanFilesDone ==
  /\ pc = "files"
  /\ scanned = Len(project.files)
  /\ pc' = "research"
  /\ UNCHANGED <<parseVars, queries, returned, detectVars, assistantVars>>

\* FONTE 3: the read of the next file raises; the try encloses the loop, so
\* its except clause ends the loop
ScanFilesRaise ==
  /\ pc = "files"
  /\ scanned < Len(project.files)
  /\ ~project.files[scanned + 1].readable
  /\ pc' = "research"
  /\ UNCHANGED <<parseVars, queries, returned, detectVars, assistantVars>>

\* FONTE 4 when there is no research metadata
SkipReadme ==
  /\ pc = "research"
  /\ ~research_metadata.found
  /\ pc' = "assemble"
  /\ UNCHANGED <<parseVars, queries, returned, detectVars, assistantVars>>

\* 4a
ScanReadmeTechnologies ==
  /\ pc = "research"
  /\ research_metadata.found
  /\ detected' = ScanItems(detected, research_metadata.value["technologies"],
                           TagReadmeTechnologies)
  /\ pc' = "research keywords"
  /\ UNCHANGED <<parseVars, queries, returned, project, project_metadata, research_metadata,
                 scanned, assistantVars>>

\* 4b
ScanReadmeKeywords ==
  /\ pc = "research keywords"
  /\ detected' = ScanItems(detected, research_metadata.value["keywords"],
                           TagReadmeKeywords)
  /\ pc' = "research text"
  /\ UNCHANGED <<parseVars, queries, returned, project, project_metadata, research_metadata,
                 scanned, assistantVars>>

\* 4c
ScanReadmeResearch ==
  /\ pc = "research text"
  /\ detected' = ScanText(detected, all_research_text(research_metadata.value),
                          TagReadmeResearch)
  /\ pc' = "assemble"
  /\ UNCHANGED <<parseVars, queries, returned, project, project_metadata, research_metadata,
                 scanned, assistantVars>>

\* the sort that ends _detect_technologies, _extract_imports, the file count,
\* and self.analysis = analysis
StoreAnalysis ==
  /\ pc = "assemble"
  /\ analysis' = [analysis EXCEPT
                    ![caller] = Found(ProjectAnalysis(project, project_metadata,
                                                      research_metadata, detected))]
  /\ analyzedOn' = [analyzedOn EXCEPT ![caller] = Found(project)]
  /\ outcome' = [assistant |-> caller, op |-> "analyze_project", error |-> "none",
                 again |-> analyzedOn[caller] = Found(project)]
  /\ caller' = "none"
  /\ pc' = "idle"
  /\ UNCHANGED <<parseVars, queries, returned, detectVars>>

NextDetect ==
  \/ ExtractProjectMetadata
  \/ ExtractResearchMetadata
  \/ ScanKeywords
  \/ ScanDependencies
  \/ ScanFile
  \/ ScanFilesDone
  \/ ScanFilesRaise
  \/ SkipReadme
  \/ ScanReadmeTechnologies
  \/ ScanReadmeKeywords
  \/ ScanReadmeResearch
  \/ StoreAnalysis

SpecDetect == InitDetect /\ [][NextDetect]_vars

-----------------------------------------------------------------------------
(* extract_from_requirements called on a directory *)

MaxLines == 3

RequirementLines ==
  {<<>>, <<" "," ">>, <<"#"," ","c">>, <<" ","#","c">>, <<"a","=","=","1">>, <<" ","b"," ",">","=","2">>, <<"c","<","=","3">>, <<" ","d"," ">>, <<"e","~","=","1">>,
   <<"=","=","1">>, <<"f","<","=","1","=","=","2">>, <<"g"," ","#","2">>}

RequirementsInputs ==
  {EmptyProject.requirements, TextFile(TRUE, FALSE, <<>>)}
  \cup {TextFile(TRUE, TRUE, join(<<"\n">>, ls)) : ls \in SeqsUpTo(RequirementLines, MaxLines)}

InitRequirements ==
  /\ ParseIdle
  /\ metadata = ResearchMetadata
  /\ queries = <<>>
  /\ returned = Absent
  /\ project \in {[EmptyProject EXCEPT !.requirements = r] : r \in RequirementsInputs}
  /\ project_metadata = Absent
  /\ research_metadata = Absent
  /\ detected = <<>>
  /\ scanned = 0
  /\ AssistantsIdle
  /\ pc = "requirements"

ExtractFromRequirements ==
  /\ pc = "requirements"
  /\ returned' = Found(extract_from_requirements(project))
  /\ pc' = "done"
  /\ UNCHANGED <<parseVars, queries, detectVars, assistantVars>>

NextRequirements == ExtractFromRequirements

SpecRequirements == InitRequirements /\ [][NextRequirements]_vars

-----------------------------------------------------------------------------
(* Two assistants on one project directory, called in any order *)

LifeProjects ==
  {EmptyProject,
   Project(EmptyProject.pyproject, EmptyProject.setup_py, EmptyProject.requirements,
           Missing, <<SourceFile(TRUE, <<"i","m","p","o","r","t"," ","n","u","m","p","y"," ","a","s"," ","n","p">>)>>),
   Project(PyprojectFile(TRUE, TRUE, AllFields, "demo", <<<<"m","c","p">>>>, <<>>),
           EmptyProject.setup_py, EmptyProject.requirements, Missing, <<>>),
   Project(PyprojectFile(TRUE, TRUE, AllFields, "demo", <<<<"P","y","T","o","r","c","h">>>>, <<<<"t","o","r","c","h","=","=","2",".","0">>>>),
           EmptyProject.setup_py, EmptyProject.requirements,
           ReadmeFile(TRUE, TRUE, <<"#","#"," ","K","e","y","w","o","r","d","s","\n","-"," ","p","a","n","d","a","s">>),
           <<SourceFile(TRUE, <<"i","m","p","o","r","t"," ","t","o","r","c","h">>), SourceFile(FALSE, <<>>)>>),
   Project(PyprojectFile(TRUE, TRUE, AllFields, "demo", <<<<"m","c","p">>>>, <<>>),
           EmptyProject.setup_py, EmptyProject.requirements,
           ReadmeFile(TRUE, TRUE, <<"#"," ","T","i","t","l","e">>), <<>>),
   Project(EmptyProject.pyproject, EmptyProject.setup_py, EmptyProject.requirements,
           ReadmeFile(TRUE, TRUE, <<"#","#"," ","R","e","s","e","a","r","c","h"," ","F","o","c","u","s","\n","-"," ","M","C","P"," ","t","o","o","l","s">>), <<>>)}

Init ==
  /\ ParseIdle
  /\ metadata = ResearchMetadata
  /\ queries = <<>>
  /\ returned = Absent
  /\ project \in LifeProjects
  /\ project_metadata = Absent
  /\ research_metadata = Absent
  /\ detected = <<>>
  /\ scanned = 0
  /\ AssistantsIdle
  /\ pc = "idle"

\* analyze_project is called on assistant a
AnalyzeProject(a) ==
  /\ pc = "idle"
  /\ caller' = a
  /\ project_metadata' = Absent
  /\ research_metadata' = Absent
  /\ detected' = <<>>
  /\ scanned' = 0
  /\ pc' = "analyze"
  /\ UNCHANGED <<parseVars, queries, returned, project, analysis, analyzedOn, outcome>>

SuggestImprovements(a) ==
  /\ pc = "idle"
  /\ outcome' = [assistant |-> a, op |-> "suggest_improvements",
                 error |-> suggest_improvements(analysis[a]), again |-> FALSE]
  /\ UNCHANGED <<pc, parseVars, queries, returned, detectVars, caller, analysis, analyzedOn>>

GenerateReport(a) ==
  /\ pc = "idle"
  /\ outcome' = [assistant |-> a, op |-> "generate_report",
                 error |-> generate_report(analysis[a]), again |-> FALSE]
  /\ UNCHANGED <<pc, parseVars, queries, returned, detectVars, caller, analysis, analyzedOn>>

\* the areas and limits search_relevant_research is called with
Areas == {Absent, Found(<<"a","i">>), Found(MODEL_CONTEXT_PROTOCOL)}

PaperLimits == {0, 5}

\* search_relevant_research, had it kept the papers in the analysis it holds
SearchRelevantResearchStoring(a) ==
  /\ pc = "idle"
  /\ \E area \in Areas, max_papers \in PaperLimits :
       /\ returned' = Found(search_relevant_research(analysis[a], area, max_papers))
       /\ outcome' = [assistant |-> a, op |-> "search_relevant_research",
                      error |-> "none", again |-> FALSE,
                      area |-> area, max_papers |-> max_papers]
       /\ analysis' = [analysis EXCEPT ![a] =
                         IF @.found
                         THEN Found([@.value EXCEPT !.relevant_papers = returned'.value])
                         ELSE @]
  /\ UNCHANGED <<pc, parseVars, queries, detectVars, caller, analyzedOn>>


SearchRelevantResearch(a) ==
  /\ pc = "idle"
  /\ \E area \in Areas, max_papers \in PaperLimits :
       /\ returned' = Found(search_relevant_research(analysis[a], area, max_papers))
       /\ outcome' = [assistant |-> a, op |-> "search_relevant_research",
                      error |-> "none", again |-> FALSE,
                      area |-> area, max_papers |-> max_papers]
  /\ UNCHANGED <<pc, parseVars, queries, detectVars, caller, analysis, analyzedOn>>

\* between two calls, the content of the directory changes
ChangeProject ==
  /\ pc = "idle"
  /\ project' \in LifeProjects \ {project}
  /\ UNCHANGED <<pc, parseVars, queries, returned, project_metadata, research_metadata, detected,
                 scanned, assistantVars>>

Next ==
  \/ \E a \in Assistants : AnalyzeProject(a)
  \/ NextDetect
  \/ \E a \in Assistants : SuggestImprovements(a)
  \/ \E a \in Assistants : GenerateReport(a)
  \/ \E a \in Assistants : SearchRelevantResearch(a)
  \/ ChangeProject

Spec == Init /\ [][Next]_vars

-----------------------------------------------------------------------------
(* Two assistants on one directory whose files are enumerated in changing
   order *)

MaxListed == 2

\* a directory without manifest and README.md and one with both, each naming
\* technologies, and every sequence of up to MaxListed source files
OrderProjects ==
  {Project(d.pyproject, EmptyProject.setup_py, EmptyProject.requirements, d.readme, f) :
     d \in {[pyproject |-> EmptyProject.pyproject, readme |-> Missing],
            [pyproject |-> PyprojectFile(TRUE, TRUE, AllFields, "demo",
                                         <<<<"M","C","P"," ","S","e","r","v","e","r">>, <<"P","y","T","o","r","c","h">>>>, <<<<"n","u","m","p","y",">","=","1",".","2","0">>>>),
             readme |-> ReadmeFile(TRUE, TRUE, <<"#","#"," ","K","e","y","w","o","r","d","s","\n","-"," ","N","u","m","P","y","\n","-"," ","p","y","t","o","r","c","h",","," ","M","C","P">>)]},
     f \in SeqsUpTo(SourceFiles, MaxListed)}

\* f and g hold the same files, each as often
SameFiles(f, g) ==
  /\ Len(f) = Len(g)
  /\ \A x \in Range(f) \cup Range(g) :
       Cardinality({i \in 1..Len(f) : f[i] = x})
         = Cardinality({i \in 1..Len(g) : g[i] = x})

InitOrder ==
  /\ ParseIdle
  /\ metadata = ResearchMetadata
  /\ queries = <<>>
  /\ returned = Absent
  /\ project \in OrderProjects
  /\ project_metadata = Absent
  /\ research_metadata = Absent
  /\ detected = <<>>
  /\ scanned = 0
  /\ AssistantsIdle
  /\ pc = "idle"

\* between two calls, rglob comes to yield the same files in another order
Reenumerate ==
  /\ pc = "idle"
  /\ \E other \in OrderProjects \ {project} :
       /\ SameFiles(other.files, project.files)
       /\ project' = [project EXCEPT !.files = other.files]
  /\ UNCHANGED <<pc, parseVars, queries, returned, project_metadata, research_metadata, detected,
                 scanned, assistantVars>>

NextOrder ==
  \/ \E a \in Assistants : AnalyzeProject(a)
  \/ NextDetect
  \/ Reenumerate

SpecOrder == InitOrder /\ [][NextOrder]_vars

-----------------------------------------------------------------------------
(* Properties of the parser *)

\* the synonym phrases that occur in the lower-cased header, by table position
MatchingSynonyms(header) ==
  {i \in 1..Len(SECTION_MAPPING) : contains(SECTION_MAPPING[i].key, lower(header))}

\* C2: the classifier returns the bucket of the first synonym phrase, in table
\* order, that is a substring of the lower-cased heading ("Research Focus Area"
\* is research_focus); a heading holding no phrase gets no bucket and leaves
\* the aggregate as it was.
C2_FirstSynonymDecides ==
  [][(pc = "process" /\ nxt' = nxt + 1) =>
       LET header == sections[nxt'].header
           hits == MatchingSynonyms(header)
       IN /\ hits = {} => field_name' = None /\ metadata' = metadata
          /\ hits # {} =>
               \E i \in hits : /\ \A j \in hits : i <= j
                               /\ field_name' = SECTION_MAPPING[i].field
          /\ header = <<"R","e","s","e","a","r","c","h"," ","F","o","c","u","s"," ","A","r","e","a">> => field_name' = "research_focus"
     ]_vars

C2_Witness ==
  /\ pc = "process" /\ nxt > 0
  /\ sections[nxt].header = <<"R","e","s","e","a","r","c","h"," ","F","o","c","u","s"," ","A","r","e","a">>
  /\ {1, 4} \subseteq MatchingSynonyms(sections[nxt].header)
  /\ field_name = "research_focus"

\* the lines of a document that open a section, and the heading text of one
HeaderLines(lines) == {i \in 1..Len(lines) : HeaderGroup2(lines[i]) # <<>>}

HeaderText(line) == strip(HeaderGroup2(line))

\* the body under the last heading line whose text is h
LastBody(lines, h) ==
  LET H == HeaderLines(lines)
      last == CHOOSE i \in H :
                /\ HeaderText(lines[i]) = h
                /\ \A j \in H : HeaderText(lines[j]) = h => j <= i
      later == {j \in H : j > last}
      stop == IF later = {} THEN Len(lines) + 1
              ELSE CHOOSE j \in later : \A k \in later : j <= k
  IN SectionBody(SubSeq(lines, last + 1, stop - 1))

RepeatedHeading(lines) ==
  \E i, j \in HeaderLines(lines) :
    i < j /\ HeaderText(lines[i]) = HeaderText(lines[j])

\* C3: when a heading text occurs twice, the section extractor keeps the body
\* of the later heading only; "## Keywords / a / ## Keywords / b" gives the
\* keywords bucket ["b"].
C3_LastHeadingWins ==
  (pc \in {"process", "done"} /\ readme.exists /\ readme.decodable) =>
    /\ \A i \in 1..Len(sections) :
         sections[i].content = LastBody(splitLines(readme.text), sections[i].header)
    /\ (pc = "done" /\ readme.text = <<"#","#"," ","K","e","y","w","o","r","d","s","\n","a","\n","#","#"," ","K","e","y","w","o","r","d","s","\n","b">>)
         => parsed.value["keywords"] = <<<<"b">>>>

C3_Witness ==
  /\ pc = "done"
  /\ readme.text = <<"#","#"," ","K","e","y","w","o","r","d","s","\n","a","\n","#","#"," ","K","e","y","w","o","r","d","s","\n","b">>
  /\ RepeatedHeading(splitLines(readme.text))
  /\ parsed.found
  /\ parsed.value["keywords"] = <<<<"b">>>>

LeadsWithBullet(s) == Len(s) >= 2 /\ s[1] \in {"-", "*", "+"} /\ s[2] \in Whitespace

LeadsWithOrdinal(s) ==
  \E n \in 1..(Len(s) - 2) :
    /\ \A i \in 1..n : s[i] \in Digits
    /\ s[n + 1] = "." /\ s[n + 2] \in Whitespace

LeadsWithQuote(s) == Len(s) >= 2 /\ s[1] = ">" /\ s[2] \in Whitespace

LeadsWithMarker(s) == LeadsWithBullet(s) \/ LeadsWithOrdinal(s) \/ LeadsWithQuote(s)

\* [text](url) somewhere in s
HasLinkSyntax(s) ==
  \E a, b, c \in 1..Len(s) :
    /\ a + 1 < b /\ b + 2 < c
    /\ s[a] = "[" /\ s[b] = "]" /\ s[b + 1] = "(" /\ s[c] = ")"

HasBacktick(s) == Backtick \in Range(s)

HasAsteriskPair(s) == \E i, j \in 1..Len(s) : i < j /\ s[i] = "*" /\ s[j] = "*"

FreeOfMarkup(item) ==
  /\ ~LeadsWithMarker(item)
  /\ ~HasLinkSyntax(item)
  /\ ~HasBacktick(item)
  /\ ~HasAsteriskPair(item)

ItemsExtracted == pc = "process" /\ nxt > 0 /\ field_name # None

PlainChars ==
  {c \in Chars : \/ Ord[c] \in 48..57
                 \/ Ord[c] \in 65..90
                 \/ Ord[c] \in 97..122}

IsPlain(w) == w # <<>> /\ \A i \in 1..Len(w) : w[i] \in PlainChars

\* at most one list marker, each followed by a single space
OneMarker(m) ==
  \/ m = <<>>
  \/ Len(m) = 2 /\ m[1] \in {"-", "*", "+", ">"} /\ m[2] = " "
  \/ /\ Len(m) >= 3 /\ m[Len(m)] = " " /\ m[Len(m) - 1] = "."
     /\ \A i \in 1..(Len(m) - 2) : m[i] \in Digits

\* a plain word, bare or inside one link, code span, bold or italic construct
OneConstruct(r) ==
  \/ IsPlain(r)
  \/ \E w, u \in {SubSeq(r, i, j) : i, j \in 1..Len(r)} :
       /\ IsPlain(w) /\ IsPlain(u)
       /\ r = <<"[">> \o w \o <<"]","(">> \o u \o <<")">>
  \/ \E w \in {SubSeq(r, i, j) : i, j \in 1..Len(r)} :
       /\ IsPlain(w)
       /\ r \in {<<Backtick>> \o w \o <<Backtick>>, <<"*","*">> \o w \o <<"*","*">>, <<"*">> \o w \o <<"*">>}

SimpleLine(l) == \E n \in 0..Len(l) : OneMarker(Take(l, n)) /\ OneConstruct(Drop(l, n))

C10_QueryOrderAndCount ==
  pc = "done" =>
    LET focus == metadata["research_focus"]
        questions == metadata["research_questions"]
        keywords == metadata["keywords"]
        methods == metadata["methodology"]
        F == Len(focus)
        Q == Len(questions)
        K == IF Len(keywords) >= 2 THEN 1 ELSE 0
        M2 == Min(2, Len(methods))
        F2 == Min(2, F)
    IN /\ Len(queries) = F + Q + K + M2 * F2
       /\ \A i \in 1..F : queries[i] = focus[i]
       /\ Len(keywords) = 2 =>
            queries[F + Q + 1] = keywords[1] \o <<" ">> \o keywords[2]
       /\ Len(keywords) >= 3 =>
            queries[F + Q + 1] =
              keywords[1] \o <<" ">> \o keywords[2] \o <<" ">> \o keywords[3]
       /\ \A a \in 1..M2 : \A b \in 1..F2 :
            queries[F + Q + K + (a - 1) * F2 + b] = methods[a] \o <<" ">> \o focus[b]
       /\ ( /\ focus = <<<<"A","n","o","m","a","l","y"," ","D","e","t","e","c","t","i","o","n">>>> /\ methods = <<<<"M","e","t","h","o","d"," ","A">>>>
            /\ Q = 0 /\ K = 0 )
            => queries = <<<<"A","n","o","m","a","l","y"," ","D","e","t","e","c","t","i","o","n">>, <<"M","e","t","h","o","d"," ","A"," ","A","n","o","m","a","l","y"," ","D","e","t","e","c","t","i","o","n">>>>

C10_Witness ==
  /\ pc = "done"
  /\ Len(metadata["research_focus"]) = 3
  /\ Len(metadata["methodology"]) = 3
  /\ Len(metadata["keywords"]) = 4
  /\ Len(metadata["research_questions"]) = 2
  /\ Len(queries) = 3 + 2 + 1 + 4
  /\ queries[10] = metadata["methodology"][2] \o <<" ">> \o metadata["research_focus"][2]

-----------------------------------------------------------------------------
(* Properties of the analysis *)

DisplayNames == {tech_mapping[i].name : i \in 1..Len(tech_mapping)}

\* the table tokens of a display name
TokensOf(name) ==
  {tech_mapping[i].key : i \in {j \in 1..Len(tech_mapping) : tech_mapping[j].name = name}}

\* the provenance list a detection map gives a name, empty when it is no key
ProvenanceOf(map, name) == IF HasKey(map, name) THEN SourcesOf(map, name) ELSE <<>>

NoDuplicates(s) == \A i, j \in 1..Len(s) : i # j => s[i] # s[j]

Ascending(s) == \A i, j \in 1..Len(s) : i < j => StrLess(s[i], s[j])

Count(s, x) == Cardinality({i \in 1..Len(s) : s[i] = x})

\* an analysis has just been stored: detected and the locals of the run are
\* those of that analysis
JustAnalyzed == pc = "idle" /\ outcome.op = "analyze_project"

Stored == analysis[outcome.assistant].value

\* C1: suggest_improvements and generate_report end in ValueError exactly when
\* no analyze_project has completed before on the same assistant, whatever
\* was called on the other one; analyze_project never ends in that error.
C1_ErrorIffNotAnalyzed ==
  /\ outcome.op \in {"suggest_improvements", "generate_report"}
       => (outcome.error = "ValueError" <=> ~analyzedOn[outcome.assistant].found)
  /\ outcome.op = "analyze_project" => outcome.error = "none"

\* a2 is refused although a1 has completed an analysis
C1_Witness ==
  /\ outcome.assistant = "a2"
  /\ outcome.op = "generate_report"
  /\ outcome.error = "ValueError"
  /\ analyzedOn["a1"].found
  /\ ~analyzedOn["a2"].found

\* C5: the keys of the detection map are display names of tech_mapping, each
\* once; the technology list of the result is that key set, without
\* duplicates, in ascending order of str.
C5_TechnologiesSortedKeys ==
  /\ \A i \in 1..Len(detected) : detected[i].tech \in DisplayNames
  /\ NoDuplicates(Keys(detected))
  /\ JustAnalyzed =>
       /\ Range(Stored.technologies) = Range(Keys(detected))
       /\ Len(Stored.technologies) = Len(detected)
       /\ NoDuplicates(Stored.technologies)
       /\ Ascending(Stored.technologies)
       /\ Keys(Stored.detection_sources) = Stored.technologies

\* three technologies, detected in an order that is not the sorted one
C5_Witness ==
  /\ JustAnalyzed
  /\ Len(Stored.technologies) >= 3
  /\ Keys(detected) # Stored.technologies

\* manifest keyword k holds a token of name
KeywordHit(name) ==
  /\ project_metadata.found
  /\ \E i \in 1..Len(project_metadata.value.keywords) :
       \E token \in TokensOf(name) :
         contains(token, lower(project_metadata.value.keywords[i]))

\* number of (keyword, token) pairs that match name
KeywordHits(name) ==
  Cardinality({<<i, token>> \in (1..Len(project_metadata.value.keywords)) \X TokensOf(name) :
                 contains(token, lower(project_metadata.value.keywords[i]))})

\* one of the files the loop of FONTE 3 has read holds a token of name
CodeHit(name) ==
  \E f \in 1..scanned : \E token \in TokensOf(name) :
    contains(token, lower(project.files[f].content))

\* C6: at every point of a run no provenance list holds a tag twice; in the
\* result a technology matched by a manifest keyword and in a file that was
\* read has the manifest-keywords tag and the code-imports tag, each once.
C6_TagsOncePerTechnology ==
  /\ \A i \in 1..Len(detected) : NoDuplicates(detected[i].sources)
  /\ JustAnalyzed =>
       \A name \in DisplayNames :
         /\ NoDuplicates(ProvenanceOf(Stored.detection_sources, name))
         /\ KeywordHit(name) /\ CodeHit(name) =>
              /\ Count(ProvenanceOf(Stored.detection_sources, name), TagManifestKeywords) = 1
              /\ Count(ProvenanceOf(Stored.detection_sources, name), TagCodeImports) = 1

\* a technology matched by two tokens of one keyword and in two files
C6_Witness ==
  /\ JustAnalyzed
  /\ \E name \in DisplayNames :
       /\ KeywordHits(name) >= 2
       /\ Cardinality({f \in 1..scanned :
                         \E token \in TokensOf(name) :
                           contains(token, lower(project.files[f].content))}) >= 2
       /\ Count(ProvenanceOf(Stored.detection_sources, name), TagManifestKeywords) = 1
       /\ Count(ProvenanceOf(Stored.detection_sources, name), TagCodeImports) = 1

\* C7: an analysis of a directory left as the same assistant last analysed it
\* stores what that assistant held, and an analysis stores what any other
\* assistant holds that analysed the directory in the same state: nothing of
\* an earlier run goes into a later one.
C7_SameProjectSameAnalysis ==
  [][pc = "assemble" /\ pc' = "idle" =>
       /\ analyzedOn[caller] = Found(project) => analysis'[caller] = analysis[caller]
       /\ \A b \in Assistants :
            analyzedOn[b] = Found(project) => analysis'[caller] = analysis[b]]_vars

\* a second analysis by an assistant of an unchanged directory in which it
\* detects something, the other assistant having analysed it too
C7_Witness ==
  /\ JustAnalyzed
  /\ outcome.again
  /\ Stored.technologies # <<>>
  /\ \A b \in Assistants : analyzedOn[b] = Found(project)

NoManifestNoReadme ==
  /\ ~project.pyproject.exists
  /\ ~project.setup_py.exists
  /\ ~project.requirements.exists
  /\ ~project.readme.exists

\* a token of name is in the lower-cased content of a file that can be read
InSomeFile(name) ==
  \E f \in 1..Len(project.files) :
    /\ project.files[f].readable
    /\ \E token \in TokensOf(name) : contains(token, lower(project.files[f].content))

\* C8: with no manifest and no README.md the technology list is the set of
\* display names with a token in the lower-cased content of some source file,
\* each with provenance ["code imports"].
C8_CodeImportsOnly ==
  JustAnalyzed /\ NoManifestNoReadme =>
    /\ Range(Stored.technologies) = {name \in DisplayNames : InSomeFile(name)}
    /\ \A i \in 1..Len(Stored.detection_sources) :
         Stored.detection_sources[i].sources = <<TagCodeImports>>

\* C9: once FONTE 1 has run, a technology has the manifest-keywords tag
\* exactly when one of its tokens is inside a lower-cased manifest keyword;
\* a manifest with keywords ["mcp"], no dependencies, and nothing else that
\* holds the token gives Model Context Protocol that tag alone.
C9_KeywordTagIffTokenInKeyword ==
  /\ pc \notin {"analyze", "readme", "keywords"} =>
       \A name \in DisplayNames :
         TagManifestKeywords \in Range(ProvenanceOf(detected, name)) <=> KeywordHit(name)
  /\ ( /\ JustAnalyzed
       /\ project.pyproject.exists /\ project.pyproject.wellformed
       /\ project.pyproject.fields = AllFields
       /\ project.pyproject.keywords = <<<<"m","c","p">>>>
       /\ project.pyproject.dependencies = <<>>
       /\ \A f \in 1..Len(project.files) :
            ~contains(<<"m","c","p">>, lower(project.files[f].content))
       /\ ~research_metadata.found )
     => /\ <<"M","o","d","e","l"," ","C","o","n","t","e","x","t"," ","P","r","o","t","o","c","o","l">> \in Range(Stored.technologies)
        /\ ProvenanceOf(Stored.detection_sources, <<"M","o","d","e","l"," ","C","o","n","t","e","x","t"," ","P","r","o","t","o","c","o","l">>)
             = <<TagManifestKeywords>>

\* the keyword "MCP Server" holds the token, the token does not hold it
C9_Witness ==
  /\ JustAnalyzed
  /\ project.pyproject.exists /\ project.pyproject.wellformed
  /\ project.pyproject.keywords = <<<<"M","C","P"," ","S","e","r","v","e","r">>, <<"P","y","T","o","r","c","h">>>>
  /\ TagManifestKeywords
       \in Range(ProvenanceOf(Stored.detection_sources, <<"M","o","d","e","l"," ","C","o","n","t","e","x","t"," ","P","r","o","t","o","c","o","l">>))

-----------------------------------------------------------------------------
(* Properties of the manifests *)

\* the first character of the line that is not white space exists and is
\* not "#"
IsRequirementLine(line) ==
  \E i \in 1..Len(line) :
    /\ line[i] \notin Whitespace
    /\ line[i] # "#"
    /\ \A j \in 1..(i - 1) : line[j] \in Whitespace

\* where a "==", ">=" or "<=" starts in the line
ConstraintStarts(line) ==
  {i \in 1..(Len(line) - 1) : <<line[i], line[i + 1]>> \in {<<"=","=">>, <<">","=">>, <<"<","=">>}}

\* the line up to its leftmost constraint, trimmed
BareIdentifier(line) ==
  LET c == ConstraintStarts(line)
  IN strip(IF c = {} THEN line
           ELSE Take(line, (CHOOSE i \in c : \A j \in c : i <= j) - 1))

\* what a requirements.txt declares, line by line
DeclaredDependencies(file) ==
  IF ~file.exists \/ ~file.readable THEN <<>>
  ELSE LET named == SelectSeq(splitLines(file.text), IsRequirementLine)
       IN [i \in 1..Len(named) |-> BareIdentifier(named[i])]

YieldsA == project.pyproject.exists /\ project.pyproject.wellformed

YieldsB == project.setup_py.exists /\ project.setup_py.readable

NoDependenciesTag ==
  \A i \in 1..Len(detected) : TagDependencies \notin Range(detected[i].sources)

\* C11: the metadata of a run comes from one source only: pyproject.toml when
\* it yields metadata, else setup.py when it yields metadata, else
\* requirements.txt when it declares a dependency (under the directory name),
\* else the directory name alone; nothing of a source of lower priority is
\* added, so with setup.py winning the dependencies are empty and no
\* technology is tagged "dependencies".
C11_OneManifestSourceWins ==
  /\ pc # "analyze" =>
       /\ project_metadata.found
       /\ LET md == project_metadata.value
              a == project.pyproject
              b == project.setup_py
              r == DeclaredDependencies(project.requirements)
          IN IF YieldsA
             THEN /\ md.name = (IF "name" \in a.fields THEN a.name ELSE project.name)
                  /\ md.keywords = (IF "keywords" \in a.fields THEN a.keywords ELSE <<>>)
                  /\ md.dependencies =
                       (IF "dependencies" \in a.fields THEN a.dependencies ELSE <<>>)
             ELSE IF YieldsB
             THEN /\ md.name = (IF b.name_match THEN b.name ELSE project.name)
                  /\ md.keywords = b.keywords
                  /\ md.dependencies = <<>>
             ELSE /\ md.name = project.name
                  /\ md.keywords = <<>>
                  /\ md.dependencies = r
  /\ (~YieldsA /\ YieldsB) => NoDependenciesTag

\* setup.py wins over a requirements.txt that names numpy and pandas
C11_Witness ==
  /\ JustAnalyzed
  /\ ~YieldsA
  /\ YieldsB
  /\ DeclaredDependencies(project.requirements) = <<<<"n","u","m","p","y">>, <<"p","a","n","d","a","s">>>>
  /\ Stored.metadata.value.name = "legacy"
  /\ Stored.metadata.value.dependencies = <<>>
  /\ NoDependenciesTag

-----------------------------------------------------------------------------
(* Further properties of the parser *)

\* the fields some entry of the sections maps to
ClassifiedFields == {SectionField(sections[i].header) : i \in 1..Len(sections)}

\* a ResearchMetadata with all its fields, those no section maps to empty
CompleteAggregate(m) ==
  /\ DOMAIN m = Buckets
  /\ \A b \in Buckets : b \notin ClassifiedFields => m[b] = <<>>

\* C12 as stated: parse returns None when README.md does not exist and a
\* complete ResearchMetadata whenever it exists.
C12_ExistingFileGivesAggregate ==
  /\ pc \in {"parse", "process", "done"}
  /\ pc = "done" =>
       IF readme.exists
       THEN parsed.found /\ CompleteAggregate(parsed.value)
       ELSE parsed = Absent

\* C12: parse ends without raising, in None when README.md does not exist or
\* cannot be read as UTF-8 text, and otherwise in a ResearchMetadata with all
\* eight fields, where every field no section maps to is empty; an empty
\* text gives eight empty fields, not None.
C12_AbsentOrCompleteAggregate ==
  /\ pc \in {"parse", "process", "done"}
  /\ pc = "done" =>
       IF readme.exists /\ readme.decodable
       THEN /\ parsed.found
            /\ CompleteAggregate(parsed.value)
            /\ readme.text = <<>> => parsed.value = [b \in Buckets |-> <<>>]
       ELSE parsed = Absent

\* an empty README.md has been parsed, and one with a section that maps to
\* no field
C12_Witness ==
  /\ pc = "done"
  /\ readme.exists /\ readme.decodable
  /\ \/ readme.text = <<>>
     \/ Len(sections) = 1 /\ ClassifiedFields = {None}
  /\ parsed = Found([b \in Buckets |-> <<>>])
  /\ Cardinality(DOMAIN parsed.value) = 8

\* the items of the first n entries of the sections that map to field b, entry
\* after entry
ItemsUpTo(n, b) ==
  LET MapsTo(sec) == SectionField(sec.header) = b
      mapped == SelectSeq(SubSeq(sections, 1, n), MapsTo)
  IN Flatten([i \in 1..Len(mapped) |-> extract_items(mapped[i].content)])

\* the texts of the heading lines, top down (a heading line whose text is
\* white space only has none and names no section)
HeadingsInOrder(lines) ==
  LET IsHeader(line) == HeaderText(line) # <<>>
      headers == SelectSeq(lines, IsHeader)
  IN [i \in 1..Len(headers) |-> HeaderText(headers[i])]

\* C13: every field holds the items of all the sections that map to it, one
\* section after the other in the order of the headings in the text: the
\* items of a later section are appended, none replaces or removes an
\* earlier item, and equal items stay.
C13_BucketsAppendInHeadingOrder ==
  (pc \in {"process", "done"} /\ readme.exists /\ readme.decodable) =>
    /\ \A b \in Buckets : metadata[b] = ItemsUpTo(nxt, b)
    /\ ~RepeatedHeading(splitLines(readme.text)) =>
         [i \in 1..Len(sections) |-> sections[i].header]
           = HeadingsInOrder(splitLines(readme.text))
    /\ pc = "done" => nxt = Len(sections) /\ parsed = Found(metadata)

\* "Keywords", "Tags" and "keywords" all map to keywords; the item a is there
\* twice
C13_Witness ==
  /\ pc = "done"
  /\ [i \in 1..Len(sections) |-> sections[i].header] = <<<<"K","e","y","w","o","r","d","s">>, <<"T","a","g","s">>, <<"k","e","y","w","o","r","d","s">>>>
  /\ parsed.value["keywords"] = <<<<"a">>, <<"x">>, <<"a">>>>

\* C14: extract_from_requirements returns, in the order of the file, one
\* entry for every line that is neither blank nor a "#" comment: the line up
\* to its first "==", ">=" or "<=", trimmed; blank and comment lines give
\* nothing, and a missing or unreadable file gives the empty list.
C14_RequirementsReduced ==
  pc = "done" =>
    /\ returned.found
    /\ returned.value = DeclaredDependencies(project.requirements)
    /\ LET file == project.requirements
           named == SelectSeq(splitLines(file.text), IsRequirementLine)
       IN /\ (~file.exists \/ ~file.readable) => returned.value = <<>>
          /\ (file.exists /\ file.readable) => Len(returned.value) = Len(named)
          /\ \A i \in 1..Len(returned.value) :
               /\ ConstraintStarts(returned.value[i]) = {}
               /\ returned.value[i] = strip(returned.value[i])

\* a comment line, a "<=" line and a padded bare name
C14_Witness ==
  /\ pc = "done"
  /\ project.requirements.text = <<"#"," ","c","\n","c","<","=","3","\n"," ","d"," ">>
  /\ returned = Found(<<<<"c">>, <<"d">>>>)

\* the name the winning manifest declares, the directory name when it
\* declares none or when no manifest yields
DeclaredName ==
  IF YieldsA
  THEN (IF "name" \in project.pyproject.fields THEN project.pyproject.name
        ELSE project.name)
  ELSE IF YieldsB /\ project.setup_py.name_match THEN project.setup_py.name
  ELSE project.name

\* C15: the analysis analyze_project stores always has a ProjectMetadata; its
\* project_name is the name the winning manifest declares, and the name of
\* the directory when no manifest declares one; files_analyzed is the number
\* of *.py files under the directory (setup.py and the files that cannot be
\* read are among them).
C15_MetadataNameAndFileCount ==
  JustAnalyzed =>
    /\ Stored.metadata.found
    /\ Stored.metadata.value.name = DeclaredName
    /\ Stored.project_name = DeclaredName
    /\ Stored.files_analyzed = Cardinality(DOMAIN project.files)

\* pyproject.toml wins and declares no name; three *.py files, one of them
\* unreadable, one of them setup.py
C15_Witness ==
  /\ JustAnalyzed
  /\ YieldsA /\ "name" \notin project.pyproject.fields
  /\ YieldsB
  /\ Stored.project_name = "proj"
  /\ Stored.files_analyzed = 3
  /\ \E i \in 1..Len(project.files) : ~project.files[i].readable

-----------------------------------------------------------------------------
(* Properties of the search *)

Searched == outcome.op = "search_relevant_research"

Held == analysis[outcome.assistant]

\* the queries the README.md of the stored analysis yields
DocumentQueries ==
  IF Held.found /\ Held.value.research_metadata.found
  THEN extract_research_queries(Held.value.research_metadata.value)
  ELSE <<>>

ManifestKeywords ==
  IF Held.found /\ Held.value.metadata.found THEN Held.value.metadata.value.keywords
  ELSE <<>>

\* the area by the priority of the docstring
AreaByPriority ==
  IF outcome.area.found THEN outcome.area.value
  ELSE IF DocumentQueries # <<>> THEN DocumentQueries[1]
  ELSE IF ManifestKeywords # <<>> THEN ManifestKeywords[1]
  ELSE MACHINE_LEARNING

\* C16: search_relevant_research takes the area of the caller if given, else
\* the first query of the README.md metadata, else the first manifest
\* keyword, else the default area; so with no area given, no query from the
\* README.md and "mcp" as first manifest keyword the papers returned are those
\* on the Model Context Protocol, with or without a README.md.
C16_AreaByDocumentedPriority ==
  Searched =>
    /\ returned.value = Slice(PapersFor(Found(AreaByPriority)), outcome.max_papers)
    /\ (/\ ~outcome.area.found
        /\ DocumentQueries = <<>>
        /\ ManifestKeywords # <<>>
        /\ ManifestKeywords[1] = <<"m","c","p">>
        /\ outcome.max_papers > 0) => returned.value = McpPapers

-----------------------------------------------------------------------------
(* Further properties of the query synthesizer *)

\* the queries made of the research_questions, in their order
QuestionPart ==
  SubSeq(queries, Len(metadata["research_focus"]) + 1,
         Len(metadata["research_focus"]) + Len(metadata["research_questions"]))

\* the item up to its last character that is not "?"
BeforeQuestionMarks(item) ==
  LET other == {k \in 1..Len(item) : item[k] # "?"}
  IN IF other = {} THEN <<>>
     ELSE Take(item, CHOOSE k \in other : \A j \in other : j <= k)

\* the item without its last character when that is "?"
WithoutOneQuestionMark(item) ==
  IF item # <<>> /\ item[Len(item)] = "?" THEN Take(item, Len(item) - 1) ELSE item

\* C17 as stated: the query of a research_questions item is the item without
\* one trailing "?", trimmed; of two or more trailing "?" all but the last
\* stay.
C17_OneQuestionMarkStripped ==
  pc = "done" =>
    /\ Len(QuestionPart) = Len(metadata["research_questions"])
    /\ \A i \in 1..Len(QuestionPart) :
         QuestionPart[i] = strip(WithoutOneQuestionMark(metadata["research_questions"][i]))

\* C17: the query of a research_questions item is the item without all its
\* trailing "?", then trimmed of white space at both ends; an item ending in
\* two or more "?" loses them all.
C17_AllQuestionMarksStripped ==
  pc = "done" =>
    /\ Len(QuestionPart) = Len(metadata["research_questions"])
    /\ \A i \in 1..Len(QuestionPart) :
         QuestionPart[i] = strip(BeforeQuestionMarks(metadata["research_questions"][i]))

\* "How ??" and "Why?" give "How" and "Why"
C17_Witness ==
  /\ pc = "done"
  /\ metadata["research_questions"] = <<<<"H","o","w"," ","?","?">>, <<"W","h","y","?">>>>
  /\ QuestionPart = <<<<"H","o","w">>, <<"W","h","y">>>>

\* how many "#" the line starts with
MarkerRun(line) == LeadingRun(line, {"#"})

\* two or three "#", then white space, then text
OpensSection(line) ==
  /\ MarkerRun(line) \in {2, 3}
  /\ Len(line) > MarkerRun(line)
  /\ line[MarkerRun(line) + 1] \in Whitespace
  /\ strip(Drop(line, MarkerRun(line))) # <<>>

\* a level-1 line, or one with four "#" or more
OtherLevel(line) == MarkerRun(line) = 1 \/ MarkerRun(line) >= 4

\* the text without its lines of another level
WithoutOtherLevels(content) ==
  LET Kept(line) == ~OtherLevel(line)
  IN join(<<"\n">>, SelectSeq(splitLines(content), Kept))

\* C18: the headers of the sections are the texts of the lines made of two
\* or three "#", white space and text, and of no other line; a line with one
\* "#" or with four or more is body text: the metadata is the one of the
\* text without these lines (such a line ends no section, opens none, is
\* dropped before the first heading), and no item starts with "#".
C18_OnlyLevel2And3OpenSections ==
  (pc \in {"process", "done"} /\ readme.exists /\ readme.decodable) =>
    LET lines == splitLines(readme.text)
    IN /\ {sections[i].header : i \in 1..Len(sections)}
            = {strip(Drop(lines[k], MarkerRun(lines[k]))) :
                 k \in {j \in 1..Len(lines) : OpensSection(lines[j])}}
       /\ \A k \in 1..Len(lines) : OtherLevel(lines[k]) => HeaderGroup2(lines[k]) = <<>>
       /\ pc = "done" =>
            /\ parsed = Found(parse_content(WithoutOtherLevels(readme.text)))
            /\ \A b \in Buckets : \A i \in 1..Len(parsed.value[b]) :
                 parsed.value[b][i][1] # "#"

\* a line with four "#" between two lines of the keywords section
C18_Witness ==
  /\ pc = "done"
  /\ readme.text = <<"#","#"," ","K","e","y","w","o","r","d","s","\n","a","\n","#","#","#","#"," ","D","e","e","p","\n","y">>
  /\ parsed.value["keywords"] = <<<<"a">>, <<"y">>>>
  /\ Len(sections) = 1

\* pyproject.toml exists and tomli.load (or open) raises on it
MalformedA == project.pyproject.exists /\ ~project.pyproject.wellformed

\* the same directory without pyproject.toml
WithoutA == [project EXCEPT !.pyproject = EmptyProject.pyproject]

\* C19: a pyproject.toml that exists but cannot be loaded counts as absent:
\* extract_from_pyproject returns None, the metadata of the run is the one
\* the same directory gives without pyproject.toml (setup.py, else
\* requirements.txt, else the directory name), and analyze_project ends
\* without error with that metadata in the stored analysis.
C19_MalformedManifestAsAbsent ==
  MalformedA =>
    /\ extract_from_pyproject(project) = Absent
    /\ pc # "analyze" =>
         /\ project_metadata = extract_project_metadata(WithoutA)
         /\ project_metadata.found
         /\ project_metadata.value.name =
              (IF YieldsB /\ project.setup_py.name_match THEN project.setup_py.name
               ELSE project.name)
         /\ project_metadata.value.dependencies =
              (IF YieldsB THEN <<>> ELSE DeclaredDependencies(project.requirements))
    /\ JustAnalyzed =>
         /\ outcome.error = "none"
         /\ Stored = ProjectAnalysis(WithoutA, extract_project_metadata(WithoutA),
                                     research_metadata, detected)

\* a malformed pyproject.toml next to a setup.py, and next to a
\* requirements.txt alone
C19_Witness ==
  /\ JustAnalyzed
  /\ MalformedA
  /\ \/ YieldsB /\ Stored.metadata.value.name = "legacy"
     \/ ~YieldsB /\ Stored.metadata.value.dependencies = <<<<"n","u","m","p","y">>, <<"p","a","n","d","a","s">>>>

\* where a version constraint or an extras suffix starts in a dependency
SuffixStarts(dep) ==
  {i \in 1..Len(dep) : dep[i] \in {"<", ">", "=", "!", "~", "["}}

\* the package name of a dependency: the text before its constraint or
\* extras suffix, lower-cased and trimmed
PackageName(dep) ==
  LET c == SuffixStarts(dep)
  IN strip(lower(IF c = {} THEN dep
                 ELSE Take(dep, (CHOOSE i \in c : \A j \in c : i <= j) - 1)))

\* the dependencies of the metadata in use
DependenciesInUse ==
  IF project_metadata.found THEN project_metadata.value.dependencies ELSE <<>>

\* C20: once FONTE 2 has run, a technology carries the tag "dependencies"
\* exactly when the package name of some dependency of the metadata (its
\* version constraint, whatever the operator, and its extras suffix removed,
\* lower-cased) is equal to one of its table tokens; a name that only
\* contains a token gives no tag.
C20_DependencyTagIffNameIsToken ==
  pc \notin {"analyze", "readme", "keywords", "dependencies"} =>
    \A name \in DisplayNames :
      TagDependencies \in Range(ProvenanceOf(detected, name))
        <=> \E i \in 1..Len(DependenciesInUse) :
              PackageName(DependenciesInUse[i]) \in TokensOf(name)

-----------------------------------------------------------------------------
(* Further properties of the analysis *)

\* C21: a *.py file whose read raises is skipped on its own, in FONTE 3 and
\* in _extract_imports: every file that can be read is still scanned, so the
\* result tags with "code imports" every technology with a token in a
\* readable file and lists the import lines of every readable file, wherever
\* the unreadable file stands in the order of rglob.
C21_UnreadableFileSkipped ==
  JustAnalyzed =>
    /\ \A name \in DisplayNames :
         InSomeFile(name)
           => TagCodeImports \in Range(ProvenanceOf(Stored.detection_sources, name))
    /\ \A f \in 1..Len(project.files) :
         project.files[f].readable
           => ImportLines(project.files[f].content) \subseteq Range(Stored.imports)

\* a token of name is inside one of the items, lower-cased
ItemHit(its, name) ==
  \E i \in 1..Len(its) : \E token \in TokensOf(name) : contains(token, lower(its[i]))

\* a token of name is inside the text
TextHit(text, name) == \E token \in TokensOf(name) : contains(token, text)

\* research_focus, methodology and research_questions, joined by blanks and
\* lower-cased
ResearchBlob(rm) ==
  lower(join(<<" ">>, rm["research_focus"] \o rm["methodology"] \o rm["research_questions"]))

\* a dependency of the metadata in use names a token of name
DependencyHit(name) ==
  \E i \in 1..Len(DependenciesInUse) : DepName(DependenciesInUse[i]) \in TokensOf(name)

ReadmeTags == {TagReadmeTechnologies, TagReadmeKeywords, TagReadmeResearch}

\* C22: FONTE 4 reads five fields of the README.md metadata: once it has run,
\* a technology has the tag "README technologies" exactly when a token of it
\* is in a technologies item, "README keywords" exactly when one is in a
\* keywords item, "README research focus" exactly when one is in the
\* lower-cased join of research_focus + methodology + research_questions;
\* a technology is detected only through these or the three other scans, so
\* items of goals, datasets and related_papers cause none, and without
\* README.md metadata no technology has a README tag.
C22_ReadmeScanReadsFiveBuckets ==
  (pc = "assemble" \/ JustAnalyzed) =>
    \A name \in DisplayNames :
      LET tags == Range(ProvenanceOf(detected, name))
      IN /\ ~research_metadata.found => tags \cap ReadmeTags = {}
         /\ research_metadata.found =>
              /\ TagReadmeTechnologies \in tags
                   <=> ItemHit(research_metadata.value["technologies"], name)
              /\ TagReadmeKeywords \in tags
                   <=> ItemHit(research_metadata.value["keywords"], name)
              /\ TagReadmeResearch \in tags
                   <=> TextHit(ResearchBlob(research_metadata.value), name)
         /\ HasKey(detected, name) =>
              \/ KeywordHit(name) \/ DependencyHit(name) \/ CodeHit(name)
              \/ /\ research_metadata.found
                 /\ \/ ItemHit(research_metadata.value["technologies"], name)
                    \/ ItemHit(research_metadata.value["keywords"], name)
                    \/ TextHit(ResearchBlob(research_metadata.value), name)

\* the README.md names PyTorch under Technologies and Methods and pandas
\* under Goals only
C22_Witness ==
  /\ JustAnalyzed
  /\ research_metadata.found
  /\ research_metadata.value["goals"] = <<<<"p","a","n","d","a","s">>>>
  /\ ~HasKey(detected, <<"P","a","n","d","a","s">>)
  /\ {TagReadmeTechnologies, TagReadmeResearch}
       \subseteq Range(ProvenanceOf(Stored.detection_sources, <<"P","y","T","o","r","c","h">>))
  /\ TagReadmeKeywords \notin Range(ProvenanceOf(Stored.detection_sources, <<"P","y","T","o","r","c","h">>))

-----------------------------------------------------------------------------
(* Properties of the items of a section *)

\* length of the marker and of the white space after it, 0 when the line does
\* not start with that marker
BulletLen(s) ==
  IF Len(s) >= 2 /\ s[1] \in {"-", "*", "+"} /\ s[2] \in Whitespace
  THEN 1 + LeadingRun(Tail(s), Whitespace) ELSE 0

OrdinalLen(s) ==
  LET n == LeadingRun(s, Digits)
  IN IF n >= 1 /\ Len(s) >= n + 2 /\ s[n + 1] = "." /\ s[n + 2] \in Whitespace
     THEN n + 1 + LeadingRun(Drop(s, n + 1), Whitespace) ELSE 0

QuoteLen(s) ==
  IF Len(s) >= 2 /\ s[1] = ">" /\ s[2] \in Whitespace
  THEN 1 + LeadingRun(Tail(s), Whitespace) ELSE 0

\* one bullet at most, then one ordinal at most, then one quote marker at most
AfterMarkers(s) ==
  LET b == Drop(s, BulletLen(s))
      o == Drop(b, OrdinalLen(b))
  IN Drop(o, QuoteLen(o))

Normalized(line) == strip(StripInline(AfterMarkers(strip(line))))

Survives(line) == Normalized(line) # <<>> /\ Normalized(line)[1] # "#"

\* the section _process_section has just extracted the items of
ItemsTaken == pc \in {"process", "done"} /\ nxt >= 1 /\ field_name # None

\* C23: the items of a section are its surviving lines in their order, equal
\* lines repeated, each with at most one bullet, then at most one ordinal,
\* then at most one quote marker removed, no rule applied a second time:
\* "- 1. a" gives "a", "- - a" gives "- a", "> - a" gives "- a".
C23_MarkersStrippedOnceInOrder ==
  ItemsTaken =>
    LET content == sections[nxt].content
        kept == SelectSeq(splitLines(content), Survives)
    IN /\ items = [i \in 1..Len(kept) |-> Normalized(kept[i])]
       /\ content = <<"-"," ","1","."," ","a">> => items = <<<<"a">>>>
       /\ content = <<"-"," ","-"," ","a">> => items = <<<<"-"," ","a">>>>
       /\ content = <<">"," ","-"," ","a">> => items = <<<<"-"," ","a">>>>
       /\ content = <<"1","."," ","-"," ","a">> => items = <<<<"-"," ","a">>>>

\* a quote marker before a bullet: the bullet stays
C23_Witness ==
  /\ ItemsTaken
  /\ sections[nxt].content = <<">"," ","-"," ","a">>
  /\ items = <<<<"-"," ","a">>>>
  /\ metadata["keywords"] = <<<<"-"," ","a">>>>

-----------------------------------------------------------------------------
(* Properties of the stored analysis *)

\* C24: a call of suggest_improvements, search_relevant_research (which calls
\* extract_research_queries) or generate_report leaves every field of the
\* analysis each assistant holds as it was; the analysis an assistant holds
\* changes only when an analyze_project call on that assistant completes.
C24_OnlyAnalyzeReplacesAnalysis ==
  [][\A a \in Assistants :
       /\ pc = "idle" /\ pc' = "idle" => analysis'[a] = analysis[a]
       /\ analysis'[a] # analysis[a] =>
            pc = "assemble" /\ pc' = "idle" /\ caller = a]_vars

\* a search on an assistant that holds an analysis with a parsed document has
\* returned papers, and the analysis holds none of them
C24_Witness ==
  /\ pc = "idle"
  /\ outcome.op = "search_relevant_research"
  /\ analysis[outcome.assistant].found
  /\ analysis[outcome.assistant].value.research_metadata.found
  /\ analysis[outcome.assistant].value.technologies # <<>>
  /\ returned.found /\ returned.value # <<>>
  /\ analysis[outcome.assistant].value.relevant_papers = <<>>
  /\ analysis[outcome.assistant].value.suggestions = <<>>

-----------------------------------------------------------------------------
(* Properties of overlapping synonyms *)

\* _process_section has just classified the heading "Data Migration Methods"
DataMigrationMethods ==
  /\ pc \in {"process", "done"}
  /\ nxt >= 1
  /\ sections[nxt].header = <<"D","a","t","a"," ","M","i","g","r","a","t","i","o","n"," ","M","e","t","h","o","d","s">>

\* C25: the heading "Data Migration Methods" is classified into the datasets
\* bucket, "data" being hit first.
C25_DataHitFirst == DataMigrationMethods => field_name = "datasets"

\* C25, amended: the heading "Data Migration Methods" holds both "data" and
\* "methods"; "methods" is declared before "data", so the section goes to the
\* methodology bucket and the datasets bucket gets nothing from it.
C25_MethodsHitFirst ==
  DataMigrationMethods =>
    /\ field_name = "methodology"
    /\ MatchingSynonyms(sections[nxt].header) = {25, 28}
    /\ SECTION_MAPPING[25].key = <<"m","e","t","h","o","d","s">> /\ SECTION_MAPPING[28].key = <<"d","a","t","a">>
    /\ metadata["methodology"] = extract_items(sections[nxt].content)
    /\ metadata["datasets"] = <<>>
    /\ pc = "done" => parsed = Found(metadata)

\* the document "## Data Migration Methods / - item" is parsed
C25_Witness ==
  /\ DataMigrationMethods
  /\ pc = "done"
  /\ parsed.found
  /\ parsed.value["methodology"] = <<<<"i","t","e","m">>>>
  /\ parsed.value["datasets"] = <<>>

-----------------------------------------------------------------------------
(* Properties of the provenance lists *)

\* the tags in the order of the scans that give them
ScanOrder ==
  <<TagManifestKeywords, TagDependencies, TagCodeImports,
    TagReadmeTechnologies, TagReadmeKeywords, TagReadmeResearch>>

ScanRank(tag) == CHOOSE i \in 1..Len(ScanOrder) : ScanOrder[i] = tag

\* s is ScanOrder with some of its tags left out, and not all of them
InScanOrder(s) ==
  /\ s # <<>>
  /\ \A i \in 1..Len(s) : s[i] \in Range(ScanOrder)
  /\ \A i, j \in 1..Len(s) : i < j => ScanRank(s[i]) < ScanRank(s[j])

\* C26: at every point of a run and in the result, every technology of the
\* detection map has a provenance list that is not empty and is a
\* subsequence of the scan order [manifest keywords, dependencies, code
\* imports, README technologies, README keywords, README research focus].
C26_ProvenanceInScanOrder ==
  /\ \A i \in 1..Len(detected) : InScanOrder(detected[i].sources)
  /\ JustAnalyzed =>
       /\ \A i \in 1..Len(Stored.detection_sources) :
            InScanOrder(Stored.detection_sources[i].sources)
       /\ \A i \in 1..Len(Stored.technologies) :
            InScanOrder(ProvenanceOf(Stored.detection_sources, Stored.technologies[i]))

\* a technology found by four scans, and another found by a README scan only
C26_Witness ==
  /\ JustAnalyzed
  /\ \E i \in 1..Len(Stored.detection_sources) :
       Len(Stored.detection_sources[i].sources) >= 4
  /\ \E i \in 1..Len(Stored.detection_sources) :
       /\ Len(Stored.detection_sources[i].sources) = 1
       /\ ScanRank(Stored.detection_sources[i].sources[1]) >= 4

-----------------------------------------------------------------------------
(* Properties of repeated headings *)

\* the first line that opens a section with heading text h
FirstHeading(lines, h) ==
  CHOOSE i \in HeaderLines(lines) :
    /\ HeaderText(lines[i]) = h
    /\ \A j \in HeaderLines(lines) : HeaderText(lines[j]) = h => i <= j

KeywordsTagsKeywords == <<"#","#"," ","K","e","y","w","o","r","d","s","\n","a","\n","#","#"," ","T","a","g","s","\n","x","\n","#","#"," ","K","e","y","w","o","r","d","s","\n","b">>

\* C27: the sections come in the order in which their headings occur first
\* in the text, each heading once, and each with the body under its last
\* occurrence; "## Keywords / a / ## Tags / x / ## Keywords / b" gives the
\* sections Keywords: b, Tags: x and the keywords bucket ["b", "x"].
C27_FirstPositionLastBody ==
  LET lines == splitLines(readme.text)
  IN /\ (pc = "process" /\ nxt = 0) =>
          /\ \A i \in 1..Len(sections) :
               /\ sections[i].header # <<>>
               /\ \E k \in HeaderLines(lines) : HeaderText(lines[k]) = sections[i].header
               /\ sections[i].content = LastBody(lines, sections[i].header)
          /\ \A i, j \in 1..Len(sections) :
               i < j => FirstHeading(lines, sections[i].header)
                          < FirstHeading(lines, sections[j].header)
          /\ \A k \in HeaderLines(lines) :
               HeaderText(lines[k]) # <<>> =>
                 \E i \in 1..Len(sections) : sections[i].header = HeaderText(lines[k])
     /\ (pc \in {"process", "done"} /\ readme.text = KeywordsTagsKeywords) =>
          /\ sections = <<[header |-> <<"K","e","y","w","o","r","d","s">>, content |-> <<"b">>],
                          [header |-> <<"T","a","g","s">>, content |-> <<"x">>]>>
          /\ pc = "done" => parsed.value["keywords"] = <<<<"b">>, <<"x">>>>

C27_Witness ==
  /\ pc = "done"
  /\ readme.text = KeywordsTagsKeywords
  /\ parsed.found
  /\ parsed.value["keywords"] = <<<<"b">>, <<"x">>>>

-----------------------------------------------------------------------------
(* Properties of the section structure *)

\* a level-2 or level-3 heading line, whatever its text
EndsSection(line) ==
  /\ MarkerRun(line) \in {2, 3}
  /\ Len(line) >= MarkerRun(line) + 2
  /\ line[MarkerRun(line) + 1] \in Whitespace

\* the nearest heading line above line k, 0 when there is none
Owner(lines, k) ==
  LET above == {j \in 1..(k - 1) : EndsSection(lines[j])}
  IN IF above = {} THEN 0 ELSE CHOOSE j \in above : \A i \in above : i <= j

\* the lines whose nearest heading above is classified into field f
LinesUnder(lines, f) ==
  {k \in 1..Len(lines) :
     /\ ~EndsSection(lines[k])
     /\ Owner(lines, k) # 0
     /\ SectionField(strip(Drop(lines[Owner(lines, k)],
                                MarkerRun(lines[Owner(lines, k)])))) = f}

KeywordsNotes == <<"#","#"," ","K","e","y","w","o","r","d","s","\n","a","\n","#","#","#"," ","N","o","t","e","s","\n","n","\n","y">>

\* C28: sections are flat: an item of a bucket comes from a line whose
\* nearest level-2 or level-3 heading above is classified into that bucket;
\* the lines after a heading that is not classified go to no bucket, so
\* "## Keywords / a / ### Notes / n / y" gives keywords ["a"] and nothing else.
C28_SectionsAreFlat ==
  (pc = "done" /\ parsed.found) =>
    LET lines == splitLines(readme.text)
    IN /\ \A f \in Buckets :
            \/ parsed.value[f] = <<>>
            \/ Range(parsed.value[f])
                 \subseteq {Normalized(lines[k]) : k \in LinesUnder(lines, f)}
       /\ readme.text = KeywordsNotes =>
            parsed.value = [ResearchMetadata EXCEPT !["keywords"] = <<<<"a">>>>]

C28_Witness ==
  /\ pc = "done"
  /\ readme.text = KeywordsNotes
  /\ Len(sections) = 2
  /\ sections[2] = [header |-> <<"N","o","t","e","s">>, content |-> <<"n","\n","y">>]
  /\ parsed.found
  /\ parsed.value["keywords"] = <<<<"a">>>>

-----------------------------------------------------------------------------
(* Properties of a manifest that declares nothing *)

\* pyproject.toml parses and its [project] table is missing or empty
BareA == YieldsA /\ project.pyproject.fields = {}

\* C29: a pyproject.toml that parses and declares no field wins all the same:
\* the metadata is the record of defaults (the directory name, no keywords,
\* no dependencies), whatever setup.py and requirements.txt hold, no
\* technology gets a tag of the manifest scans, and the result carries that
\* record and the directory name.
C29_BareManifestStillWins ==
  BareA =>
    /\ pc # "analyze" =>
         project_metadata = Found(ProjectMetadata(project.name, <<>>, <<>>))
    /\ \A i \in 1..Len(detected) :
         /\ TagManifestKeywords \notin Range(detected[i].sources)
         /\ TagDependencies \notin Range(detected[i].sources)
    /\ JustAnalyzed =>
         /\ Stored.metadata = Found(ProjectMetadata(project.name, <<>>, <<>>))
         /\ Stored.project_name = project.name
         /\ \A i \in 1..Len(Stored.detection_sources) :
              /\ TagManifestKeywords \notin Range(Stored.detection_sources[i].sources)
              /\ TagDependencies \notin Range(Stored.detection_sources[i].sources)

\* setup.py names the project and a keyword, requirements.txt declares numpy
\* and pandas, and neither is used
C29_Witness ==
  /\ JustAnalyzed
  /\ BareA
  /\ YieldsB
  /\ project.setup_py.name = "legacy"
  /\ project.setup_py.keywords # <<>>
  /\ DeclaredDependencies(project.requirements) = <<<<"n","u","m","p","y">>, <<"p","a","n","d","a","s">>>>
  /\ Stored.metadata.value.name = project.name
  /\ Stored.metadata.value.keywords = <<>>
  /\ Stored.metadata.value.dependencies = <<>>

-----------------------------------------------------------------------------
(* Properties of the enumeration order of the source files *)

AllReadable(files) == \A f \in 1..Len(files) : files[f].readable

\* C30: two analyses of a directory whose source files can all be read, made
\* under two enumeration orders of the same files, are equal in every field
\* (technology list, provenance map with the order of its tags, import list,
\* file count).
C30_EnumerationOrderIrrelevant ==
  \A a, b \in Assistants :
    ( /\ analysis[a].found /\ analysis[b].found
      /\ [analyzedOn[a].value EXCEPT !.files = <<>>]
           = [analyzedOn[b].value EXCEPT !.files = <<>>]
      /\ SameFiles(analyzedOn[a].value.files, analyzedOn[b].value.files)
      /\ AllReadable(analyzedOn[a].value.files) )
    => analysis[a] = analysis[b]

\* a1 and a2 have analysed two files with imports in both, in opposite
\* orders, and the technologies were met in an order that is not the sorted
\* one
C30_Witness ==
  /\ JustAnalyzed
  /\ analysis["a1"].found /\ analysis["a2"].found
  /\ analyzedOn["a1"].value.files # analyzedOn["a2"].value.files
  /\ SameFiles(analyzedOn["a1"].value.files, analyzedOn["a2"].value.files)
  /\ AllReadable(project.files)
  /\ \A f \in 1..Len(project.files) : ImportLines(project.files[f].content) # {}
  /\ Keys(detected) # Stored.technologies
  /\ Len(Stored.imports) >= 3
  /\ analysis["a1"] = analysis["a2"]

====
